---- MODULE Spec2Model ----
(***************************************************************************)
(* A model of the pair-style force models of LAMMPS: PairSMATB (the        *)
(* second-moment tight-binding many-body potential: coefficient tables,    *)
(* init_one, the two-pass compute() with its reverse and forward ghost     *)
(* exchanges) and CPairPOD (coeff, init_one, the neighbor-pair extraction  *)
(* of compute()).                                                          *)
(*                                                                         *)
(* Floating point.  A double is modelled as a fixed-point integer counting *)
(* units of 1/ONE, or the token NaN, which stands for every non-finite     *)
(* result (a division by zero, and all arithmetic on such a result).       *)
(* Memory obtained from memory->create / memory->grow and never written is *)
(* the token Uninit: reading it yields a nondeterministically chosen value.*)
(***************************************************************************)
EXTENDS Integers, Sequences, FiniteSets, TLC

(***************************************************************************)
(* Bounds of the model.                                                    *)
(***************************************************************************)
NTypes == 2
MaxSetupCalls == 3
MaxAtoms == 3
MaxCompute == 2

(***************************************************************************)
(* Fixed-point arithmetic.                                                 *)
(***************************************************************************)
ONE == 10 * 10
NaN == 0 - (2 ^ 30)
Uninit == 1 - (2 ^ 30)

IsNum(a) == a # NaN

FAdd(a, b) == IF a = NaN \/ b = NaN THEN NaN ELSE a + b
FSub(a, b) == IF a = NaN \/ b = NaN THEN NaN ELSE a - b
FNeg(a) == IF a = NaN THEN NaN ELSE 0 - a
FScale(k, a) == IF a = NaN THEN NaN ELSE k * a
FMul(a, b) == IF a = NaN \/ b = NaN THEN NaN ELSE (a * b) \div ONE
FDiv(a, b) == IF a = NaN \/ b = NaN \/ b = 0 THEN NaN ELSE (a * ONE) \div b

RECURSIVE SqrtIter(_, _, _)
SqrtIter(n, lo, hi) ==
  IF hi - lo <= 1 THEN lo
  ELSE LET mid == (lo + hi) \div 2
       IN IF mid * mid <= n THEN SqrtIter(n, mid, hi) ELSE SqrtIter(n, lo, mid)

ISqrt(n) == IF n <= 0 THEN 0 ELSE SqrtIter(n, 0, IF n < 46340 THEN n + 1 ELSE 46340 + 1)
FSqrt(a) == IF a = NaN \/ a < 0 THEN NaN ELSE ISqrt(a * ONE)

\* exp at the integers -6..6, in units of 1/ONE
ExpTab(n) ==
  LET tab == <<0, 1, 2, 5, 14, 37, 100, 272, 739, 2009, 5460, 14841, 40343>>
      m == IF n < 0 - 6 THEN 0 - 6 ELSE IF n > 6 THEN 6 ELSE n
  IN tab[m + 7]

\* exp, interpolated linearly between the integers
FExp(a) ==
  IF a = NaN THEN NaN
  ELSE LET n == a \div ONE
           fr == a - n * ONE
           lo == ExpTab(n)
           hi == ExpTab(n + 1)
       IN lo + ((hi - lo) * fr) \div ONE

MIN(a, b) == IF a < b THEN a ELSE b
MAX(a, b) == IF a > b THEN a ELSE b

\* a value read from memory: an uninitialised cell reads as the garbage g
Rd(v, g) == IF v = Uninit THEN g ELSE v

Types == 1 .. NTypes
GarbageInt == {0, 1}
GarbageDbl == {0, 7 * ONE}

(***************************************************************************)
(* Errors.  error->all() is fatal: no operation runs after it.             *)
(***************************************************************************)
NoError == "none"
ErrCoeffArgsSMATB == "Incorrect args for pair coefficients: SMATB needs i j r0 p q A QSI CO_start CO_end"
ErrCoeffArgs == "Incorrect args for pair coefficients"
ErrBounds == "Invalid type range"
ErrNotSet == "All pair coeffs are not set"
NoRet == 0 - 1

VARIABLES
  style,        \* which pair style the run uses: "smatb" or "pod"
  fatal,        \* NoError, or the message of the fatal error raised
  smatb,        \* PairSMATB: allocated, setflag and the coefficient tables
  pod,          \* CPairPOD: allocated, setflag, cutsq, scale, map, rcut
  ret,          \* ret[i][j]: what init_one(i,j) last returned under the current coefficients
  lastCall,     \* the last coeff / init_one call: its arguments and outcome
  divZeroInit,  \* init_one has divided by zero
  ncalls,       \* coeff and init_one calls made so far
  newton_pair,  \* force->newton_pair
  eflag,        \* the energy flag compute() is called with
  atom,         \* atom->nlocal, nghost, nmax, x, type
  swaps,        \* the ghost exchanges of the communication layer, in forward order
  list,         \* the neighbor list: inum, ilist, numneigh, firstneigh
  f,            \* atom->f
  nmax, on_eb,  \* PairSMATB: capacity and contents of on_eb
  eng_vdwl, eatom,
  podtmp,       \* CPairPOD: nijmax and the per-pair scratch arrays
  pc, cur,      \* the phase of compute() and the cursor of its loop
  phaseLog,     \* the phases of the current compute() call completed so far
  stamp,        \* stamp[k]: the phase that last wrote on_eb[k]
  preRev,       \* on_eb as it was when the reverse exchange began
  nproc,        \* pairs that passed the cutoff test in the current loop
  divZero,      \* the second loop has divided by a zero distance
  ncompute,     \* compute() calls completed
  rst,          \* PairSMATB: a restart file being written and read back
  sten,         \* NStencilFullMultiOld3d: the bin geometry and the stencils
  nmaxatom,     \* CPairPOD: capacity of the per-atom arrays
  reax,         \* PairReaxCOMP: the state init_style and setup work on
  repl,         \* Replicate: the configuration and its replica
  switch,       \* PairSMATB: the switching polynomials of one pair of types
  gpu,          \* the lj/coul/cut/soft kernels: inputs and results of a launch
  roll          \* the SDS rolling-friction model: a contact and its history

setupVars == <<style, fatal, smatb, pod, ret, lastCall, divZeroInit, ncalls>>

computeVars ==
  <<newton_pair, eflag, atom, swaps, list, f, nmax, on_eb, eng_vdwl, eatom, podtmp,
    pc, cur, phaseLog, stamp, preRev, nproc, divZero, ncompute>>

moreVars == <<switch, gpu, roll>>

auxVars == <<rst, sten, nmaxatom, reax, repl, moreVars>>

vars == <<setupVars, computeVars, auxVars>>

\* a component of the program that the run at hand does not use
AuxIdle == [pc |-> "off"]

MoreQuiet == switch = AuxIdle /\ gpu = AuxIdle /\ roll = AuxIdle

AuxQuiet ==
  /\ rst = AuxIdle /\ sten = AuxIdle /\ nmaxatom = 0 /\ reax = AuxIdle /\ repl = AuxIdle
  /\ MoreQuiet

(***************************************************************************)
(* PairSMATB: tables.                                                      *)
(***************************************************************************)
Table(v) == [i \in Types |-> [j \in Types |-> v]]

\* the constructor: nothing allocated
SmatbNew ==
  [allocated |-> FALSE,
   setflag |-> Table(Uninit), cutsq |-> Table(Uninit),
   r0 |-> Table(Uninit), p |-> Table(Uninit), A |-> Table(Uninit),
   q |-> Table(Uninit), QSI |-> Table(Uninit),
   cutOffStart |-> Table(Uninit), cutOffEnd |-> Table(Uninit),
   cutOffEnd2 |-> Table(Uninit),
   a3 |-> Table(Uninit), a4 |-> Table(Uninit), a5 |-> Table(Uninit),
   x3 |-> Table(Uninit), x4 |-> Table(Uninit), x5 |-> Table(Uninit)]

\* allocate(): setflag[i][j] = 0 for j >= i only; everything else is left as created
SmatbAllocate(t) ==
  [t EXCEPT !.allocated = TRUE,
            !.setflag = [i \in Types |-> [j \in Types |-> IF j >= i THEN 0 ELSE Uninit]],
            !.cutsq = Table(Uninit),
            !.r0 = Table(Uninit), !.p = Table(Uninit), !.A = Table(Uninit),
            !.q = Table(Uninit), !.QSI = Table(Uninit),
            !.cutOffStart = Table(Uninit), !.cutOffEnd = Table(Uninit),
            !.cutOffEnd2 = Table(Uninit),
            !.a3 = Table(Uninit), !.a4 = Table(Uninit), !.a5 = Table(Uninit),
            !.x3 = Table(Uninit), !.x4 = Table(Uninit), !.x5 = Table(Uninit)]

\* utils::bounds on a type argument: 0 stands for "*", k for the single type k
Bounds(a) ==
  IF a = 0 THEN [ok |-> TRUE, lo |-> 1, hi |-> NTypes]
  ELSE IF a >= 1 /\ a <= NTypes THEN [ok |-> TRUE, lo |-> a, hi |-> a]
  ELSE [ok |-> FALSE, lo |-> 0, hi |-> 0]

\* the type pairs the double loop of coeff() visits
CoeffPairs(ilo, ihi, jlo, jhi) ==
  {ij \in Types \X Types :
     /\ ilo <= ij[1] /\ ij[1] <= ihi
     /\ MAX(jlo, ij[1]) <= ij[2] /\ ij[2] <= jhi}

SetAt(tab, S, v) ==
  [i \in Types |-> [j \in Types |-> IF <<i, j>> \in S THEN v ELSE tab[i][j]]]

\* the body of the double loop of coeff() over the pairs S
SmatbCoeffStore(t, S, P) ==
  [t EXCEPT !.r0 = SetAt(t.r0, S, P.r0),
            !.p = SetAt(t.p, S, P.p),
            !.A = SetAt(t.A, S, P.A),
            !.q = SetAt(t.q, S, P.q),
            !.QSI = SetAt(t.QSI, S, P.QSI),
            !.cutOffStart = SetAt(t.cutOffStart, S, P.cutOffStart),
            !.cutOffEnd = SetAt(t.cutOffEnd, S, P.cutOffEnd),
            !.setflag = SetAt(t.setflag, S, 1)]

\* the argument-count test of coeff()
SmatbCoeffNargBad(narg) == narg # 9

\* coeff(): the tables and the error it ends with
SmatbCoeffResult(t, narg, a0, a1, P) ==
  LET t1 == IF ~t.allocated THEN SmatbAllocate(t) ELSE t
      bi == Bounds(a0)
      bj == Bounds(a1)
      S == CoeffPairs(bi.lo, bi.hi, bj.lo, bj.hi)
  IN IF SmatbCoeffNargBad(narg) THEN [tab |-> t1, err |-> ErrCoeffArgsSMATB]
     ELSE IF ~bi.ok \/ ~bj.ok THEN [tab |-> t1, err |-> ErrBounds]
     ELSE IF Cardinality(S) = 0
       THEN [tab |-> SmatbCoeffStore(t1, S, P), err |-> ErrCoeffArgs]
       ELSE [tab |-> SmatbCoeffStore(t1, S, P), err |-> NoError]

SmatbUnset_Never(sf) == FALSE

\* the test of init_one() for a pair that no coeff call configured
SmatbUnset(sf) == sf = 0

\* init_one(), setflag[i][j] == 0: the two cutoffs are mixed, then the fatal error
SmatbInitOneUnset(t, i, j, g) ==
  [t EXCEPT !.setflag[i][j] = 0,
            !.cutOffStart[i][j] = MIN(Rd(t.cutOffStart[i][i], g), Rd(t.cutOffStart[j][j], g)),
            !.cutOffEnd[i][j] = MAX(Rd(t.cutOffEnd[i][i], g), Rd(t.cutOffEnd[j][j], g))]

\* the coefficients (c3, c4, c5) of the polynomial linking to zero
SmatbPoly(e, a, b, c, es, es2) ==
  [c5 |-> FDiv(FMul(e, FAdd(FAdd(FScale(12, a), FScale(6, b)), c)), FScale(2, es2)),
   c4 |-> FDiv(FMul(e, FAdd(FAdd(FScale(15, a), FScale(7, b)), c)), es),
   c3 |-> FDiv(FMul(e, FAdd(FAdd(FScale(20, a), FScale(8, b)), c)), 2 * ONE)]

\* the parameters of pair (i,j) as init_one() reads them
SmatbParams(t, i, j, g) ==
  [r0 |-> Rd(t.r0[i][j], g), p |-> Rd(t.p[i][j], g), q |-> Rd(t.q[i][j], g),
   A |-> Rd(t.A[i][j], g), QSI |-> Rd(t.QSI[i][j], g),
   cutOffStart |-> Rd(t.cutOffStart[i][j], g), cutOffEnd |-> Rd(t.cutOffEnd[i][j], g)]

\* the divisors of init_one()
SmatbInitDivisors(P) ==
  LET es == FSub(P.cutOffEnd, P.cutOffStart)
      es2 == FMul(es, es)
      es3 == FMul(es2, es)
  IN {P.r0, es3, FMul(P.r0, es2), FMul(FMul(es, P.r0), P.r0), FScale(2, es2), es}

\* init_one(), setflag[i][j] != 0: the derived tables and the mirror image (j,i)
SmatbInitOneSet(t, i, j, sf, g) ==
  LET P == SmatbParams(t, i, j, g)
      es == FSub(P.cutOffEnd, P.cutOffStart)
      es2 == FMul(es, es)
      es3 == FMul(es2, es)
      expp == FMul(P.A, FExp(FMul(P.p, FSub(ONE, FDiv(P.cutOffStart, P.r0)))))
      ap == FDiv(0 - ONE, es3)
      bp == FDiv(P.p, FMul(P.r0, es2))
      cp == FDiv(FNeg(FMul(P.p, P.p)), FMul(FMul(es, P.r0), P.r0))
      a == SmatbPoly(expp, ap, bp, cp, es, es2)
      expq == FMul(P.QSI, FExp(FMul(P.q, FSub(ONE, FDiv(P.cutOffStart, P.r0)))))
      aq == FDiv(0 - ONE, es3)
      bq == FDiv(P.q, FMul(es2, P.r0))
      cq == FDiv(FNeg(FMul(P.q, P.q)), FMul(FMul(es, P.r0), P.r0))
      x == SmatbPoly(expq, aq, bq, cq, es, es2)
      end2 == FMul(P.cutOffEnd, P.cutOffEnd)
      M == IF i # j THEN {<<i, j>>, <<j, i>>} ELSE {<<i, j>>}
  IN [t EXCEPT !.setflag = [SetAt(t.setflag, M, 1) EXCEPT ![i][j] = sf],
               !.r0 = SetAt(t.r0, M, P.r0),
               !.p = SetAt(t.p, M, P.p),
               !.q = SetAt(t.q, M, P.q),
               !.A = SetAt(t.A, M, P.A),
               !.QSI = SetAt(t.QSI, M, P.QSI),
               !.cutOffStart = SetAt(t.cutOffStart, M, P.cutOffStart),
               !.cutOffEnd = SetAt(t.cutOffEnd, M, P.cutOffEnd),
               !.cutOffEnd2 = SetAt(t.cutOffEnd2, M, end2),
               !.a3 = SetAt(t.a3, M, a.c3),
               !.a4 = SetAt(t.a4, M, a.c4),
               !.a5 = SetAt(t.a5, M, a.c5),
               !.x3 = SetAt(t.x3, M, x.c3),
               !.x4 = SetAt(t.x4, M, x.c4),
               !.x5 = SetAt(t.x5, M, x.c5)]

\* init_one(i,j), having read setflag[i][j] as sf: tables, error, returned cutoff
SmatbInitOneResult(t, i, j, sf, g) ==
  IF SmatbUnset(sf)
  THEN [tab |-> SmatbInitOneUnset(t, i, j, g), err |-> ErrNotSet, ret |-> NoRet, dz |-> FALSE]
  ELSE [tab |-> SmatbInitOneSet(t, i, j, sf, g), err |-> NoError,
        ret |-> Rd(t.cutOffEnd[i][j], g),
        dz |-> 0 \in SmatbInitDivisors(SmatbParams(t, i, j, g))]

(***************************************************************************)
(* CPairPOD: tables.                                                       *)
(***************************************************************************)
PodNew ==
  [allocated |-> FALSE, setflag |-> Table(Uninit), cutsq |-> Table(Uninit),
   scale |-> Table(Uninit), map |-> [i \in Types |-> Uninit], rcut |-> Uninit]

\* coeff(): setflag, cutsq, scale and map are created anew, scale is set to 1.0
PodCoeffCreate(t) ==
  [t EXCEPT !.allocated = TRUE, !.setflag = Table(Uninit), !.cutsq = Table(Uninit),
            !.scale = Table(ONE), !.map = [i \in Types |-> Uninit]]

\* the argument-count test of coeff()
PodCoeffNargBad(narg) == narg # 4 + NTypes

\* Pair::map_element2type: elems[i] is the element of type i, or -1 for NULL
MapElement2Type(t, elems) ==
  [t EXCEPT !.map = elems,
            !.setflag = [i \in Types |-> [j \in Types |->
                           IF j >= i
                           THEN (IF elems[i] >= 0 /\ elems[j] >= 0 THEN 1 ELSE 0)
                           ELSE t.setflag[i][j]]]]

MappedPairs(elems) ==
  {ij \in Types \X Types : ij[2] >= ij[1] /\ elems[ij[1]] >= 0 /\ elems[ij[2]] >= 0}

\* coeff(): the tables and the error it ends with; rc is the cutoff of the pod file
PodCoeffResult(t, narg, elems, rc) ==
  LET t1 == PodCoeffCreate(t)
      t2 == MapElement2Type(t1, elems)
  IN IF PodCoeffNargBad(narg) THEN [tab |-> t1, err |-> ErrCoeffArgs]
     ELSE IF MappedPairs(elems) = {} THEN [tab |-> t2, err |-> ErrCoeffArgs]
     ELSE [tab |-> [t2 EXCEPT !.rcut = rc, !.cutsq = Table(FMul(rc, rc))],
           err |-> NoError]

\* the test of init_one() for a pair that no coeff call configured
PodUnset(sf) == sf = 0

\* init_one(i,j), having read setflag[i][j] as sf
PodInitOneResult(t, i, j, sf) ==
  IF PodUnset(sf)
  THEN [tab |-> [t EXCEPT !.setflag[i][j] = 0], err |-> ErrNotSet, ret |-> NoRet]
  ELSE [tab |-> [t EXCEPT !.setflag[i][j] = sf, !.scale[j][i] = t.scale[i][j]],
        err |-> NoError, ret |-> t.rcut]

(***************************************************************************)
(* The coeff / init_one calls of a run.                                    *)
(***************************************************************************)
PA == [r0 |-> 3 * ONE, p |-> 3 * ONE, q |-> 2 * ONE, A |-> ONE \div 2, QSI |-> 120,
       cutOffStart |-> 4 * ONE, cutOffEnd |-> 5 * ONE]
PB == [r0 |-> 3 * ONE, p |-> 2 * ONE, q |-> ONE, A |-> ONE, QSI |-> ONE,
       cutOffStart |-> 3 * ONE, cutOffEnd |-> 5 * ONE]
\* r0 = 0
PZ == [PA EXCEPT !.r0 = 0]
\* cutoff end = cutoff start
PE == [PA EXCEPT !.cutOffEnd = 4 * ONE]

ParamChoices == {PA, PB, PZ, PE}
\* type arguments of coeff: "*", the last type, and a type out of range
TypeArgs == {0, NTypes, NTypes + 1}
ValidParams(P) == P.r0 > 0 /\ P.cutOffEnd > P.cutOffStart

NoCall == [op |-> "none", i |-> 0, j |-> 0, sf |-> 0, conf |-> FALSE, failed |-> FALSE]

Vec0 == <<0, 0, 0>>

PodTmpNew ==
  [nijmax |-> 0, nablockmax |-> 0, alloc |-> FALSE, oob |-> FALSE, gi |-> 0 - 1, nij |-> 0,
   rij |-> <<>>, idxi |-> <<>>, ai |-> <<>>, aj |-> <<>>, ti |-> <<>>, tj |-> <<>>,
   numneighsum |-> <<>>, typeai |-> <<>>]

\* no atoms, no compute() call: the state of the run while it is being set up
ComputeQuiet ==
  /\ newton_pair = 1 /\ eflag = 0
  /\ atom = [nlocal |-> 0, nghost |-> 0, nmax |-> 0, x |-> <<>>, type |-> <<>>]
  /\ swaps = <<>>
  /\ list = [inum |-> 0, ilist |-> <<>>, numneigh |-> <<>>, firstneigh |-> <<>>]
  /\ f = <<>>
  /\ nmax = 0 /\ on_eb = <<>>
  /\ eng_vdwl = 0 /\ eatom = <<>>
  /\ podtmp = PodTmpNew
  /\ pc = "idle" /\ cur = 1
  /\ phaseLog = <<>> /\ stamp = <<>> /\ preRev = <<>>
  /\ nproc = 0 /\ divZero = FALSE /\ ncompute = 0

\* a coeff call has configured the type pair {i,j}
Configured(setflag, i, j) == setflag[MIN(i, j)][MAX(i, j)] = 1

SetupInit ==
  /\ style \in {"smatb", "pod"}
  /\ fatal = NoError
  /\ smatb = SmatbNew
  /\ pod = PodNew
  /\ ret = Table(NoRet)
  /\ lastCall = NoCall
  /\ divZeroInit = FALSE
  /\ ncalls = 0
  /\ ComputeQuiet
  /\ AuxQuiet

SmatbCoeff ==
  /\ style = "smatb" /\ fatal = NoError /\ ncalls < MaxSetupCalls
  /\ \E narg \in {8, 9}, a0 \in TypeArgs, a1 \in TypeArgs, P \in ParamChoices :
       LET r == SmatbCoeffResult(smatb, narg, a0, a1, P)
       IN /\ smatb' = r.tab
          /\ fatal' = r.err
          /\ ret' = IF r.err = NoError THEN Table(NoRet) ELSE ret
          /\ lastCall' = [op |-> "coeff", i |-> a0, j |-> a1, sf |-> 0, conf |-> FALSE,
                          failed |-> r.err # NoError]
  /\ ncalls' = ncalls + 1
  /\ UNCHANGED <<style, pod, divZeroInit, computeVars, auxVars>>

SmatbInitOne ==
  /\ style = "smatb" /\ fatal = NoError /\ ncalls < MaxSetupCalls
  /\ smatb.allocated
  /\ \E i \in Types, j \in Types, g \in GarbageDbl :
       \E sf \in (IF smatb.setflag[i][j] = Uninit THEN GarbageInt ELSE {smatb.setflag[i][j]}) :
         LET r == SmatbInitOneResult(smatb, i, j, sf, g)
         IN /\ smatb' = r.tab
            /\ fatal' = r.err
            /\ ret' = IF r.err = NoError THEN [ret EXCEPT ![i][j] = r.ret] ELSE ret
            /\ divZeroInit' = (divZeroInit \/ r.dz)
            /\ lastCall' = [op |-> "init_one", i |-> i, j |-> j, sf |-> sf,
                            conf |-> Configured(smatb.setflag, i, j),
                            failed |-> r.err # NoError]
  /\ ncalls' = ncalls + 1
  /\ UNCHANGED <<style, pod, computeVars, auxVars>>

PodCoeff ==
  /\ style = "pod" /\ fatal = NoError /\ ncalls < MaxSetupCalls
  /\ \E narg \in {3 + NTypes, 4 + NTypes}, elems \in [Types -> {0 - 1, 0}], rc \in {5 * ONE} :
       LET r == PodCoeffResult(pod, narg, elems, rc)
       IN /\ pod' = r.tab
          /\ fatal' = r.err
          /\ ret' = IF r.err = NoError THEN Table(NoRet) ELSE ret
          /\ lastCall' = [op |-> "coeff", i |-> 0, j |-> 0, sf |-> 0, conf |-> FALSE,
                          failed |-> r.err # NoError]
  /\ ncalls' = ncalls + 1
  /\ UNCHANGED <<style, smatb, divZeroInit, computeVars, auxVars>>

PodInitOne ==
  /\ style = "pod" /\ fatal = NoError /\ ncalls < MaxSetupCalls
  /\ pod.allocated
  /\ \E i \in Types, j \in Types :
       \E sf \in (IF pod.setflag[i][j] = Uninit THEN GarbageInt ELSE {pod.setflag[i][j]}) :
         LET r == PodInitOneResult(pod, i, j, sf)
         IN /\ pod' = r.tab
            /\ fatal' = r.err
            /\ ret' = IF r.err = NoError THEN [ret EXCEPT ![i][j] = r.ret] ELSE ret
            /\ lastCall' = [op |-> "init_one", i |-> i, j |-> j, sf |-> sf,
                            conf |-> Configured(pod.setflag, i, j),
                            failed |-> r.err # NoError]
  /\ ncalls' = ncalls + 1
  /\ UNCHANGED <<style, smatb, divZeroInit, computeVars, auxVars>>


SetupNext == SmatbCoeff \/ SmatbInitOne \/ PodCoeff \/ PodInitOne

SpecCoeff == SetupInit /\ [][SetupNext]_vars

(***************************************************************************)
(* Claims on coeff and init_one, checked under SpecCoeff.                  *)
(***************************************************************************)
CoeffErrors == {ErrCoeffArgsSMATB, ErrCoeffArgs, ErrBounds}

\* C4: for every coefficient set coeff accepted and every type pair (i,j),
\* init_one(i,j) and init_one(j,i) both return, and return the same cutoff,
\* whichever of the two is called first.
C4_InitOneSymmetric ==
  /\ (lastCall.op = "init_one" /\ lastCall.conf) => ~lastCall.failed
  /\ \A i \in Types, j \in Types :
       (ret[i][j] # NoRet /\ ret[j][i] # NoRet) => ret[i][j] = ret[j][i]

\* C8: init_one(i,j) called on a pair whose setflag[i][j] is 0 ends in the fatal
\* error "All pair coeffs are not set", returns no cutoff and leaves the pair
\* unconfigured, in PairSMATB and in CPairPOD.
C8_InitOneUnsetFails ==
  (lastCall.op = "init_one" /\ lastCall.sf = 0) =>
     /\ lastCall.failed
     /\ fatal = ErrNotSet
     /\ ret[lastCall.i][lastCall.j] = NoRet
     /\ (style = "smatb" => smatb.setflag[lastCall.i][lastCall.j] = 0)
     /\ (style = "pod" => pod.setflag[lastCall.i][lastCall.j] = 0)

\* C8 witness: PairSMATB::init_one was called on an unconfigured pair and failed
C8_Witness ==
  /\ style = "smatb" /\ lastCall.op = "init_one" /\ lastCall.sf = 0
  /\ ~lastCall.conf /\ fatal = ErrNotSet

\* C9: a coeff call that fails leaves the state of the pair style as it was:
\* no coefficient, setflag, scale or cutsq entry and no allocated flag changes.
C9_FailedCoeffChangesNothing ==
  [][(fatal = NoError /\ fatal' \in CoeffErrors) => (smatb' = smatb /\ pod' = pod)]_vars

\* C10: coeff rejects a parameter outside its valid range, so every configured
\* pair has r0 > 0 and cutOffEnd > cutOffStart and init_one never divides by zero.
C10_CoeffValidatesRanges ==
  /\ ~divZeroInit
  /\ (style = "smatb" /\ smatb.allocated) =>
        \A i \in Types, j \in Types :
           (j >= i /\ smatb.setflag[i][j] = 1) =>
              (smatb.r0[i][j] > 0 /\ smatb.cutOffEnd[i][j] > smatb.cutOffStart[i][j])

(***************************************************************************)
(* Atoms, ghosts and the neighbor list of a run.                           *)
(*                                                                         *)
(* Atoms are indexed from 0: [0, nlocal) are owned, [nlocal, nlocal+nghost)*)
(* are ghosts.  Swap s of the communication layer copies the atoms of its  *)
(* sendlist, which exist before the swap, into the ghosts                  *)
(* first .. first+n-1, shifted by one period of the box.                   *)
(***************************************************************************)
RECURSIVE SetToSeq(_)
SetToSeq(S) ==
  IF S = {} THEN <<>>
  ELSE LET m == CHOOSE a \in S : \A b \in S : a <= b
       IN <<m>> \o SetToSeq(S \ {m})

\* the sequences of sendlists that create at most budget ghosts
RECURSIVE SendLists(_, _)
SendLists(nexist, budget) ==
  {<<>>} \cup
  UNION {{<<SetToSeq(S)>> \o rest :
            rest \in SendLists(nexist + Cardinality(S), budget - Cardinality(S))} :
         S \in {T \in SUBSET (0 .. nexist - 1) : T # {} /\ Cardinality(T) <= budget}}

RECURSIVE SumLen(_, _)
SumLen(sl, k) == IF k = 0 THEN 0 ELSE Len(sl[k]) + SumLen(sl, k - 1)

MakeSwaps(nl, sl) ==
  [s \in 1 .. Len(sl) |->
     [sendlist |-> sl[s], first |-> nl + SumLen(sl, s - 1), n |-> Len(sl[s])]]

\* the period by which the ghosts of swap s are displaced
Shift(s) ==
  IF s = 1 THEN <<3 * ONE, 0, 0>>
  ELSE IF s = 2 THEN <<0, 4 * ONE, 0>>
  ELSE <<0, 0, 5 * ONE>>

VAdd(u, v) == <<u[1] + v[1], u[2] + v[2], u[3] + v[3]>>

\* the swap that created ghost k
SwapOf(sw, k) == CHOOSE s \in 1 .. Len(sw) : sw[s].first <= k /\ k < sw[s].first + sw[s].n

\* the atom of which ghost k is the copy
Src(sw, k) == sw[SwapOf(sw, k)].sendlist[k - sw[SwapOf(sw, k)].first + 1]

RECURSIVE Root(_, _, _)
Root(sw, nl, k) == IF k < nl THEN k ELSE Root(sw, nl, Src(sw, k))

RECURSIVE PosOf(_, _, _, _)
PosOf(sw, nl, site, k) ==
  IF k < nl THEN <<site[k] * ONE, 0, 0>>
  ELSE VAdd(PosOf(sw, nl, site, Src(sw, k)), Shift(SwapOf(sw, k)))

TypeOf(sw, nl, k) == 1 + (Root(sw, nl, k) % NTypes)

\* special-bond bits of a neighbor entry, above the NEIGHMASK bits
SBBit == 2 ^ 30

\* a half list (every j > i), its entries carrying special-bond bits, for PairSMATB;
\* a full list (every j # i) for CPairPOD
NeighOf(st, nall, i) ==
  IF st = "smatb"
  THEN [m \in 1 .. (nall - 1 - i) |-> (i + m) + ((i + i + m) % 2) * SBBit]
  ELSE SetToSeq((0 .. nall - 1) \ {i})

MakeList(st, nl, nall) ==
  [inum |-> nl,
   ilist |-> [ii \in 1 .. nl |-> ii - 1],
   numneigh |-> [i \in 0 .. nl - 1 |-> Len(NeighOf(st, nall, i))],
   firstneigh |-> [i \in 0 .. nl - 1 |-> NeighOf(st, nall, i)]]

Sites == 0 .. 2

\* Pair::init: init_one(i,j) for every i <= j, in increasing order
RECURSIVE SmatbInitFrom(_, _, _)
SmatbInitFrom(t, i, j) ==
  IF i > NTypes THEN t
  ELSE IF j > NTypes THEN SmatbInitFrom(t, i + 1, i + 1)
  ELSE SmatbInitFrom(SmatbInitOneSet(t, i, j, 1, 0), i, j + 1)

\* the tables after "pair_coeff * * PB", "pair_coeff i i PA" for every i, and Pair::init
SmatbReady ==
  LET t0 == SmatbAllocate(SmatbNew)
      t1 == SmatbCoeffStore(t0, CoeffPairs(1, NTypes, 1, NTypes), PB)
      t2 == SmatbCoeffStore(t1, {ij \in Types \X Types : ij[1] = ij[2]}, PA)
  IN SmatbInitFrom(t2, 1, 1)

\* the tables after "pair_coeff * * pod coeff E ... E"
PodReady == PodCoeffResult(PodNew, 4 + NTypes, [i \in Types |-> 0], 5 * ONE).tab

(***************************************************************************)
(* The state in which compute() is first called.                           *)
(***************************************************************************)
ComputeInit ==
  /\ style \in {"smatb", "pod"}
  /\ fatal = NoError
  /\ smatb = SmatbReady
  /\ pod = PodReady
  /\ ret = Table(NoRet)
  /\ lastCall = NoCall
  /\ divZeroInit = FALSE
  /\ ncalls = 0
  \* CPairPOD::init_style refuses to run with newton pair off
  /\ newton_pair \in (IF style = "pod" THEN {1} ELSE {0, 1})
  /\ eflag \in {0, 3}
  /\ \E nl \in 1 .. MaxAtoms :
       \E sl \in SendLists(nl, MaxAtoms - nl) :
         \E site \in {st \in [0 .. nl - 1 -> Sites] :
                        \A a \in 0 .. nl - 2 : st[a] <= st[a + 1]} :
           LET sw == MakeSwaps(nl, sl)
               na == nl + SumLen(sl, Len(sl))
           IN /\ swaps = sw
              /\ atom = [nlocal |-> nl, nghost |-> na - nl, nmax |-> na,
                         x |-> [k \in 0 .. na - 1 |-> PosOf(sw, nl, site, k)],
                         type |-> [k \in 0 .. na - 1 |-> TypeOf(sw, nl, k)]]
              /\ list = MakeList(style, nl, na)
              /\ f = [k \in 0 .. na - 1 |-> Vec0]
              /\ eatom = [k \in 0 .. na - 1 |-> 0]
  /\ nmax = 0 /\ on_eb = <<>>
  /\ eng_vdwl = 0
  /\ podtmp = PodTmpNew
  /\ pc = "idle" /\ cur = 1
  /\ phaseLog = <<>> /\ stamp = <<>> /\ preRev = <<>>
  /\ nproc = 0 /\ divZero = FALSE /\ ncompute = 0
  /\ AuxQuiet

(***************************************************************************)
(* PairSMATB::compute                                                      *)
(***************************************************************************)
nall == atom.nlocal + atom.nghost

Atoms == 0 .. nall - 1

\* j &= NEIGHMASK
NeighMask(j) == j % (2 ^ 29)

\* the (i, jlist[jj]) of the double loop over ilist and firstneigh[i], in loop order
RECURSIVE PairsFrom(_)
PairsFrom(ii) ==
  IF ii > list.inum THEN <<>>
  ELSE LET i == list.ilist[ii]
       IN [jj \in 1 .. list.numneigh[i] |-> <<i, list.firstneigh[i][jj]>>]
          \o PairsFrom(ii + 1)

PairSeq == PairsFrom(1)

\* "j = jlist[jj]; j &= NEIGHMASK;": the neighbor list after the entry raw of atom
\* i has been read and masked; the mask is applied to the local copy j
JlistAfterMask_InPlace(l, i, raw) ==
  [l EXCEPT !.firstneigh[i] = [m \in DOMAIN @ |-> IF @[m] = raw THEN NeighMask(raw) ELSE @[m]]]

JlistAfterMask(l, i, raw) == l

\* del[] = x[i] - x[j]
Del(i, j) == <<atom.x[i][1] - atom.x[j][1], atom.x[i][2] - atom.x[j][2],
               atom.x[i][3] - atom.x[j][3]>>

Dijsq(i, j) ==
  LET d == Del(i, j) IN FMul(d[1], d[1]) + FMul(d[2], d[2]) + FMul(d[3], d[3])

\* the cutoff test of both loops
SmatbInside(dijsq, cut2) == dijsq < cut2

\* the flags ev_setup derives from eflag
eflag_either == eflag # 0
eflag_global == eflag % 2 = 1
eflag_atom == (eflag \div 2) % 2 = 1

\* the order of the stages of compute()
NextPhase_NoForward(ph) ==
  CASE ph = "zero" -> "pass1"
    [] ph = "pass1" -> "reverse"
    [] ph = "reverse" -> "support"
    [] ph = "support" -> "pass2"
    [] ph = "forward" -> "pass2"
    [] OTHER -> "end"

NextPhase(ph) ==
  CASE ph = "zero" -> "pass1"
    [] ph = "pass1" -> "reverse"
    [] ph = "reverse" -> "support"
    [] ph = "support" -> "forward"
    [] ph = "forward" -> "pass2"
    [] OTHER -> "end"

\* "grow on_eb array if necessary": the capacity of on_eb after the test
SmatbGrowOnEb(cap, need) == IF need > cap THEN need ELSE cap

\* the head of compute(): flags and energies (ev_setup), growth of on_eb, memset;
\* the forces arrive cleared by the integrator's force_clear
SmatbComputeBegin ==
  /\ style = "smatb" /\ fatal = NoError /\ pc = "idle" /\ ncompute < MaxCompute
  /\ eng_vdwl' = IF eflag_either THEN 0 ELSE eng_vdwl
  /\ eatom' = IF eflag_atom
              THEN [k \in Atoms |-> IF newton_pair = 1 \/ k < atom.nlocal THEN 0 ELSE eatom[k]]
              ELSE eatom
  /\ f' = [k \in Atoms |-> Vec0]
  /\ nmax' = SmatbGrowOnEb(nmax, atom.nmax)
  /\ LET nzero == IF newton_pair = 1 THEN nall ELSE atom.nlocal
     IN \E fresh \in [nmax .. atom.nmax - 1 -> GarbageDbl] :
          /\ on_eb' = [k \in 0 .. nmax' - 1 |->
                         IF k < nzero THEN 0
                         ELSE IF k < nmax THEN on_eb[k] ELSE fresh[k]]
          /\ stamp' = [k \in 0 .. nmax' - 1 |-> IF k < nzero THEN "zero" ELSE "stale"]
  /\ phaseLog' = <<"zero">>
  /\ preRev' = <<>>
  /\ pc' = NextPhase("zero")
  /\ cur' = 1
  /\ UNCHANGED <<setupVars, auxVars, newton_pair, eflag, atom, swaps, list, podtmp, nproc, divZero,
                 ncompute>>

\* dij - cutOffEnd and its powers 2..5
PolyPowers(pv) ==
  LET p2 == FMul(pv, pv)
      p3 == FMul(p2, pv)
      p4 == FMul(p3, pv)
      p5 == FMul(p4, pv)
  IN [p2 |-> p2, p3 |-> p3, p4 |-> p4, p5 |-> p5]

\* c5*polyval5 + c4*polyval4 + c3*polyval3
Poly345(c5, c4, c3, w) ==
  FAdd(FAdd(FMul(c5, w.p5), FMul(c4, w.p4)), FMul(c3, w.p3))

\* 5*c5*polyval4 + 4*c4*polyval3 + 3*c3*polyval2
DPoly345(c5, c4, c3, w) ==
  FAdd(FAdd(FMul(FScale(5, c5), w.p4), FMul(FScale(4, c4), w.p3)), FMul(FScale(3, c3), w.p2))

\* qsiexpq of the first loop for a pair of types (it, jt) at distance dij
FirstQsiexpq(t, it, jt, dij) ==
  IF dij < t.cutOffStart[it][jt]
  THEN FMul(FMul(t.QSI[it][jt], t.QSI[it][jt]),
            FExp(FMul(FScale(2, t.q[it][jt]), FSub(ONE, FDiv(dij, t.r0[it][jt])))))
  ELSE LET w == PolyPowers(FSub(dij, t.cutOffEnd[it][jt]))
           v == Poly345(t.x5[it][jt], t.x4[it][jt], t.x3[it][jt], w)
       IN FMul(v, v)

\* FIRST LOOP: one iteration of the inner loop, or the exit of the outer loop
SmatbFirstLoop ==
  /\ style = "smatb" /\ fatal = NoError /\ pc = "pass1"
  /\ IF cur > Len(PairSeq)
     THEN /\ pc' = NextPhase("pass1")
          /\ phaseLog' = Append(phaseLog, "pass1")
          /\ cur' = 1
          /\ UNCHANGED <<on_eb, stamp, nproc, list>>
     ELSE LET i == PairSeq[cur][1]
              j == NeighMask(PairSeq[cur][2])
              it == atom.type[i]
              jt == atom.type[j]
              dijsq == Dijsq(i, j)
          IN /\ IF SmatbInside(dijsq, smatb.cutOffEnd2[it][jt])
                THEN LET qsiexpq == FirstQsiexpq(smatb, it, jt, FSqrt(dijsq))
                         e1 == [on_eb EXCEPT ![i] = FAdd(@, qsiexpq)]
                     IN /\ on_eb' = [e1 EXCEPT ![j] = FAdd(@, qsiexpq)]
                        /\ stamp' = [stamp EXCEPT ![i] = "pass1", ![j] = "pass1"]
                        /\ nproc' = nproc + 1
                ELSE UNCHANGED <<on_eb, stamp, nproc>>
             /\ list' = JlistAfterMask(list, i, PairSeq[cur][2])
             /\ cur' = cur + 1
             /\ UNCHANGED <<pc, phaseLog>>
  /\ UNCHANGED <<setupVars, auxVars, newton_pair, eflag, atom, swaps, f, nmax, eng_vdwl, eatom,
                 podtmp, preRev, divZero, ncompute>>

\* the number of values exchanged per atom
comm_forward == 1
comm_reverse == 1

\* pack_forward_comm: the values of the atoms of the send list
PackForwardComm(oneb, n, lst) == [m \in 1 .. n |-> oneb[lst[m]]]

\* unpack_forward_comm: the ghosts first .. first+n-1 take the packed values
UnpackForwardComm(oneb, n, first, buf) ==
  [k \in DOMAIN oneb |-> IF first <= k /\ k < first + n THEN buf[k - first + 1] ELSE oneb[k]]

\* pack_reverse_comm: the values of the ghosts first .. first+n-1
PackReverseComm(oneb, n, first) == [m \in 1 .. n |-> oneb[first + m - 1]]

RECURSIVE UnpackReverseComm_Overwrite(_, _, _, _)
UnpackReverseComm_Overwrite(oneb, n, lst, buf) ==
  IF n = 0 THEN oneb
  ELSE [UnpackReverseComm_Overwrite(oneb, n - 1, lst, buf) EXCEPT ![lst[n]] = buf[n]]

\* unpack_reverse_comm: each packed value is added to the atom of the send list
RECURSIVE UnpackReverseComm(_, _, _, _)
UnpackReverseComm(oneb, n, lst, buf) ==
  IF n = 0 THEN oneb
  ELSE [UnpackReverseComm(oneb, n - 1, lst, buf) EXCEPT ![lst[n]] = FAdd(@, buf[n])]

\* Comm::reverse_comm_pair: the swaps in reverse order, ghosts to the atoms they copy
RECURSIVE ReverseCommPair(_, _)
ReverseCommPair(oneb, s) ==
  IF s = 0 THEN oneb
  ELSE LET sw == swaps[s]
           buf == PackReverseComm(oneb, sw.n, sw.first)
       IN ReverseCommPair(UnpackReverseComm(oneb, sw.n, sw.sendlist, buf), s - 1)

\* Comm::forward_comm_pair: the swaps in order, atoms to their ghost copies
RECURSIVE ForwardCommPair(_, _)
ForwardCommPair(oneb, s) ==
  IF s > Len(swaps) THEN oneb
  ELSE LET sw == swaps[s]
           buf == PackForwardComm(oneb, sw.n, sw.sendlist)
       IN ForwardCommPair(UnpackForwardComm(oneb, sw.n, sw.first, buf), s + 1)

\* the atoms that some swap sends
Sent == {k \in Atoms : \E s \in 1 .. Len(swaps) : \E m \in 1 .. swaps[s].n : swaps[s].sendlist[m] = k}

\* comm->reverse_comm_pair(this)
SmatbReverseComm ==
  /\ style = "smatb" /\ fatal = NoError /\ pc = "reverse"
  /\ preRev' = on_eb
  /\ on_eb' = ReverseCommPair(on_eb, Len(swaps))
  /\ stamp' = [k \in DOMAIN stamp |-> IF k \in Sent THEN "reverse" ELSE stamp[k]]
  /\ pc' = NextPhase("reverse")
  /\ phaseLog' = Append(phaseLog, "reverse")
  /\ UNCHANGED <<setupVars, auxVars, newton_pair, eflag, atom, swaps, list, f, nmax, eng_vdwl, eatom,
                 podtmp, cur, nproc, divZero, ncompute>>

\* Support Loop, from iteration ii on, over the record of on_eb and the energies
\* "if (eb_i != 0.0) on_eb[i] = 1.0 / eb_i; else on_eb[i] = 0.0;"
SupportRecip_Unguarded(eb_i) == FDiv(ONE, eb_i)

SupportRecip(eb_i) == IF eb_i # 0 THEN FDiv(ONE, eb_i) ELSE 0

RECURSIVE SupportFrom(_, _)
SupportFrom(st, ii) ==
  IF ii > list.inum THEN st
  ELSE LET i == list.ilist[ii]
           eb_i == FSqrt(st.on_eb[i])
       IN IF i < atom.nlocal
          THEN SupportFrom(
                 [on_eb |-> [st.on_eb EXCEPT ![i] = SupportRecip(eb_i)],
                  eatom |-> IF eflag_either /\ eflag_atom
                            THEN [st.eatom EXCEPT ![i] = FSub(@, eb_i)] ELSE st.eatom,
                  eng |-> IF eflag_either /\ eflag_global
                          THEN FSub(st.eng, eb_i) ELSE st.eng],
                 ii + 1)
          ELSE SupportFrom(st, ii + 1)

SmatbSupportLoop ==
  /\ style = "smatb" /\ fatal = NoError /\ pc = "support"
  /\ LET r == SupportFrom([on_eb |-> on_eb, eatom |-> eatom, eng |-> eng_vdwl], 1)
     IN /\ on_eb' = r.on_eb
        /\ eatom' = r.eatom
        /\ eng_vdwl' = r.eng
  /\ stamp' = [k \in DOMAIN stamp |->
                 IF \E ii \in 1 .. list.inum : list.ilist[ii] = k /\ k < atom.nlocal
                 THEN "support" ELSE stamp[k]]
  /\ pc' = NextPhase("support")
  /\ phaseLog' = Append(phaseLog, "support")
  /\ UNCHANGED <<setupVars, auxVars, newton_pair, eflag, atom, swaps, list, f, nmax, podtmp, cur,
                 preRev, nproc, divZero, ncompute>>

\* comm->forward_comm_pair(this)
SmatbForwardComm ==
  /\ style = "smatb" /\ fatal = NoError /\ pc = "forward"
  /\ on_eb' = ForwardCommPair(on_eb, 1)
  /\ stamp' = [k \in DOMAIN stamp |-> IF k >= atom.nlocal /\ k < nall THEN "forward" ELSE stamp[k]]
  /\ pc' = NextPhase("forward")
  /\ phaseLog' = Append(phaseLog, "forward")
  /\ UNCHANGED <<setupVars, auxVars, newton_pair, eflag, atom, swaps, list, f, nmax, eng_vdwl, eatom,
                 podtmp, cur, preRev, nproc, divZero, ncompute>>

\* aexpp, Fr and Fb of the second loop for a pair of types (it, jt) at distance dij
SecondTerms(t, it, jt, dij) ==
  IF dij < t.cutOffStart[it][jt]
  THEN LET espo == FSub(ONE, FDiv(dij, t.r0[it][jt]))
           aexpp == FMul(FExp(FMul(t.p[it][jt], espo)), t.A[it][jt])
           qsiexpq == FMul(FMul(t.QSI[it][jt], t.QSI[it][jt]),
                           FExp(FMul(FScale(2, t.q[it][jt]), espo)))
       IN [aexpp |-> aexpp,
           Fr |-> FMul(FScale(2, aexpp), FDiv(t.p[it][jt], t.r0[it][jt])),
           Fb |-> FDiv(FMul(FNeg(qsiexpq), t.q[it][jt]), t.r0[it][jt])]
  ELSE LET w == PolyPowers(FSub(dij, t.cutOffEnd[it][jt]))
           qsiexpq == Poly345(t.x5[it][jt], t.x4[it][jt], t.x3[it][jt], w)
       IN [aexpp |-> Poly345(t.a5[it][jt], t.a4[it][jt], t.a3[it][jt], w),
           Fr |-> FScale(0 - 2, DPoly345(t.a5[it][jt], t.a4[it][jt], t.a3[it][jt], w)),
           Fb |-> FMul(DPoly345(t.x5[it][jt], t.x4[it][jt], t.x3[it][jt], w), qsiexpq)]

\* fpair = (Fb * (on_eb[i] + on_eb[j]) + Fr) / dij
Fpair(Fb, Fr, ei, ej, dij) == FDiv(FAdd(FMul(Fb, FAdd(ei, ej)), Fr), dij)

VScale(d, a) == <<FMul(d[1], a), FMul(d[2], a), FMul(d[3], a)>>
VPlus(u, v) == <<FAdd(u[1], v[1]), FAdd(u[2], v[2]), FAdd(u[3], v[3])>>
VMinus(u, v) == <<FSub(u[1], v[1]), FSub(u[2], v[2]), FSub(u[3], v[3])>>

\* SECOND LOOP: one iteration of the inner loop, or the exit of the outer loop
SmatbSecondLoop ==
  /\ style = "smatb" /\ fatal = NoError /\ pc = "pass2"
  /\ IF cur > Len(PairSeq)
     THEN /\ pc' = NextPhase("pass2")
          /\ phaseLog' = Append(phaseLog, "pass2")
          /\ cur' = 1
          /\ UNCHANGED <<f, eng_vdwl, eatom, nproc, divZero, list>>
     ELSE LET i == PairSeq[cur][1]
              j == NeighMask(PairSeq[cur][2])
              it == atom.type[i]
              jt == atom.type[j]
              dijsq == Dijsq(i, j)
              both == newton_pair = 1 \/ j < atom.nlocal
          IN /\ IF SmatbInside(dijsq, smatb.cutOffEnd2[it][jt])
                THEN LET dij == FSqrt(dijsq)
                         T == SecondTerms(smatb, it, jt, dij)
                         fpair == Fpair(T.Fb, T.Fr, on_eb[i], on_eb[j], dij)
                         df == VScale(Del(i, j), fpair)
                         ea1 == [eatom EXCEPT ![i] = FAdd(@, T.aexpp)]
                         f1 == [f EXCEPT ![i] = VPlus(@, df)]
                     IN /\ eatom' = IF eflag_either /\ eflag_atom
                                    THEN (IF both THEN [ea1 EXCEPT ![j] = FAdd(@, T.aexpp)]
                                          ELSE ea1)
                                    ELSE eatom
                        /\ eng_vdwl' = IF eflag_either /\ eflag_global
                                       THEN (IF both THEN FAdd(eng_vdwl, FScale(2, T.aexpp))
                                             ELSE FAdd(eng_vdwl, T.aexpp))
                                       ELSE eng_vdwl
                        /\ f' = IF both THEN [f1 EXCEPT ![j] = VMinus(@, df)] ELSE f1
                        /\ divZero' = (divZero \/ dij = 0)
                        /\ nproc' = nproc + 1
                ELSE UNCHANGED <<f, eng_vdwl, eatom, nproc, divZero>>
             /\ list' = JlistAfterMask(list, i, PairSeq[cur][2])
             /\ cur' = cur + 1
             /\ UNCHANGED <<pc, phaseLog>>
  /\ UNCHANGED <<setupVars, auxVars, newton_pair, eflag, atom, swaps, nmax, on_eb, podtmp,
                 stamp, preRev, ncompute>>

\* compute() returns to the time-stepping loop
ComputeEnd ==
  /\ fatal = NoError /\ pc = "end"
  /\ pc' = "idle"
  /\ ncompute' = ncompute + 1
  /\ UNCHANGED <<setupVars, auxVars, newton_pair, eflag, atom, swaps, list, f, nmax, on_eb, eng_vdwl,
                 eatom, podtmp, cur, phaseLog, stamp, preRev, nproc, divZero>>

(***************************************************************************)
(* CPairPOD::compute.  The descriptors, the energy and the forces are      *)
(* computed by the POD library from the pair arrays built here.            *)
(***************************************************************************)
\* 1e-20, below every positive squared distance that can be represented here
PodEps == 0

PodInside_Inclusive(rsq, rcutsq) == rsq <= rcutsq /\ rsq > PodEps

\* the test of lammpsNeighPairs
PodInside(rsq, rcutsq) == rsq < rcutsq /\ rsq > PodEps

\* x[gj] - x[gi]
PodDel(gi, gj) == Del(gj, gi)

\* lammpsNeighPairs(..., gi): the pair arrays of atom gi
LammpsNeighPairs(tmp, gi) ==
  LET rcutsq == FMul(pod.rcut, pod.rcut)
      itype == pod.map[atom.type[gi]] + 1
      Keep(gj) == PodInside(Dijsq(gj, gi), rcutsq)
      js == SelectSeq(list.firstneigh[gi], Keep)
      n == Len(js)
  IN [tmp EXCEPT !.gi = gi,
                 !.oob = tmp.oob \/ ~tmp.alloc,
                 !.typeai = <<itype>>,
                 !.nij = n,
                 !.rij = [m \in 1 .. n |-> PodDel(gi, js[m])],
                 !.idxi = [m \in 1 .. n |-> 0],
                 !.ai = [m \in 1 .. n |-> gi],
                 !.aj = js,
                 !.ti = [m \in 1 .. n |-> itype],
                 !.tj = [m \in 1 .. n |-> pod.map[atom.type[js[m]]] + 1],
                 !.numneighsum = <<0, n>>]

\* "allocate temporary memory" of the first loop
PodGrowTemp(tmp, jnum) ==
  IF tmp.nijmax < jnum
  THEN [tmp EXCEPT !.nijmax = MAX(tmp.nijmax, jnum), !.nablockmax = 1, !.alloc = TRUE]
  ELSE tmp

PodComputeBegin ==
  /\ style = "pod" /\ fatal = NoError /\ pc = "idle" /\ ncompute < MaxCompute
  /\ pc' = "podpass1"
  /\ cur' = 1
  /\ UNCHANGED <<setupVars, auxVars, newton_pair, eflag, atom, swaps, list, f, nmax, on_eb, eng_vdwl,
                 eatom, podtmp, phaseLog, stamp, preRev, nproc, divZero, ncompute>>

\* one iteration of the loop that accumulates the descriptors, or its exit
PodFirstLoop ==
  /\ style = "pod" /\ fatal = NoError /\ pc = "podpass1"
  /\ IF cur > list.inum
     THEN /\ pc' = "podpass2" /\ cur' = 1
          /\ UNCHANGED <<podtmp, nproc>>
     ELSE LET i == list.ilist[cur]
          IN /\ podtmp' = LammpsNeighPairs(PodGrowTemp(podtmp, list.numneigh[i]), i)
             /\ nproc' = nproc + podtmp'.nij
             /\ cur' = cur + 1
             /\ pc' = pc
  /\ UNCHANGED <<setupVars, auxVars, newton_pair, eflag, atom, swaps, list, f, nmax, on_eb, eng_vdwl,
                 eatom, phaseLog, stamp, preRev, divZero, ncompute>>

\* one iteration of the loop that computes the forces, or its exit
PodSecondLoop ==
  /\ style = "pod" /\ fatal = NoError /\ pc = "podpass2"
  /\ IF cur > list.inum
     THEN /\ pc' = "end" /\ cur' = 1
          /\ UNCHANGED <<podtmp, nproc>>
     ELSE LET i == list.ilist[cur]
          IN /\ podtmp' = LammpsNeighPairs(podtmp, i)
             /\ nproc' = nproc + podtmp'.nij
             /\ cur' = cur + 1
             /\ pc' = pc
  /\ UNCHANGED <<setupVars, auxVars, newton_pair, eflag, atom, swaps, list, f, nmax, on_eb, eng_vdwl,
                 eatom, phaseLog, stamp, preRev, divZero, ncompute>>

Next ==
  \/ SmatbComputeBegin \/ SmatbFirstLoop \/ SmatbReverseComm \/ SmatbSupportLoop
  \/ SmatbForwardComm \/ SmatbSecondLoop
  \/ PodComputeBegin \/ PodFirstLoop \/ PodSecondLoop
  \/ ComputeEnd

Spec == ComputeInit /\ [][Next]_vars

(***************************************************************************)
(* Properties of compute()                                                 *)
(***************************************************************************)
FullOrder == <<"zero", "pass1", "reverse", "support", "forward", "pass2">>

IsPrefix(a, b) == Len(a) <= Len(b) /\ \A k \in 1 .. Len(a) : a[k] = b[k]

RECURSIVE SumOver(_, _)
SumOver(S, fn) ==
  IF S = {} THEN 0
  ELSE LET k == CHOOSE a \in S : TRUE IN FAdd(fn[k], SumOver(S \ {k}, fn))

Ghosts == {k \in Atoms : k >= atom.nlocal}

\* the ghosts that are copies, direct or through other ghosts, of the owned atom o
Copies(o) == {k \in Ghosts : Root(swaps, atom.nlocal, k) = o}

\* the pair of the last iteration of the running pair loop
PrevPair == [i |-> PairSeq[cur - 1][1], j |-> NeighMask(PairSeq[cur - 1][2])]

\* C1: in every PairSMATB::compute() call the stages run in the order zero, first
\* pass, reverse exchange, reciprocal square root of the owned entries, forward
\* exchange, second pass; while the second pass runs, every owned entry of on_eb
\* was last written by the support loop and every ghost entry by the forward
\* exchange, so no ghost entry is read before the forward exchange has completed.
C1_StagesInOrder ==
  style = "smatb" =>
    /\ IsPrefix(phaseLog, FullOrder)
    /\ pc = "pass1" => phaseLog = SubSeq(FullOrder, 1, 1)
    /\ pc = "reverse" => phaseLog = SubSeq(FullOrder, 1, 2)
    /\ pc = "support" => phaseLog = SubSeq(FullOrder, 1, 3)
    /\ pc = "forward" => phaseLog = SubSeq(FullOrder, 1, 4)
    /\ pc = "pass2" =>
         /\ phaseLog = SubSeq(FullOrder, 1, 5)
         /\ \A k \in Atoms : stamp[k] = IF k < atom.nlocal THEN "support" ELSE "forward"
    /\ pc = "end" => phaseLog = FullOrder

\* the second pass has just read the on_eb entry of a ghost within the cutoff
C1_Witness ==
  /\ style = "smatb" /\ pc = "pass2" /\ cur > 1
  /\ PrevPair.j >= atom.nlocal
  /\ SmatbInside(Dijsq(PrevPair.i, PrevPair.j),
                 smatb.cutOffEnd2[atom.type[PrevPair.i]][atom.type[PrevPair.j]])

\* C2: when the first pass of PairSMATB::compute() is about to start, on_eb[k] is
\* zero for every k in [0, nlocal+nghost), whether Newton pair is on or off.
C2_OnEbZeroAtStart ==
  (style = "smatb" /\ pc = "pass1" /\ cur = 1) => \A k \in Atoms : on_eb[k] = 0

\* C3: the pack callbacks carry one value per atom; after the reverse exchange the
\* on_eb of an owned atom is its prior value plus the sum of the prior values of
\* all of its ghost copies; after the forward exchange every ghost entry holds the
\* value of the atom it copies.
C3_ExchangeCallbacks ==
  style = "smatb" =>
    /\ \A s \in 1 .. Len(swaps) :
         (nmax >= nall /\ nall > 0) =>
           /\ Len(PackForwardComm(on_eb, swaps[s].n, swaps[s].sendlist))
                = swaps[s].n * comm_forward
           /\ Len(PackReverseComm(on_eb, swaps[s].n, swaps[s].first))
                = swaps[s].n * comm_reverse
    /\ pc = "support" =>
         \A o \in Atoms \ Ghosts : on_eb[o] = FAdd(preRev[o], SumOver(Copies(o), preRev))
    /\ pc = "pass2" =>
         \A k \in Ghosts : on_eb[k] = on_eb[Src(swaps, k)]

\* the reverse exchange has summed nonzero values of two ghosts, one a copy of the
\* other, into their owner
C3_Witness ==
  /\ style = "smatb" /\ pc = "support"
  /\ \E k \in Ghosts : Src(swaps, k) >= atom.nlocal /\ preRev[k] > 0 /\ preRev[Src(swaps, k)] > 0
  /\ \E o \in Atoms \ Ghosts : on_eb[o] > preRev[o] /\ preRev[o] > 0

\* the sum over the local and ghost atoms of the forces
ForceSum ==
  <<SumOver(Atoms, [k \in Atoms |-> f[k][1]]), SumOver(Atoms, [k \in Atoms |-> f[k][2]]),
    SumOver(Atoms, [k \in Atoms |-> f[k][3]])>>

\* C5: with Newton pair on, or with every atom local, the force increments that one
\* PairSMATB::compute() call makes sum to zero over the local and ghost atoms.
C5_ForcesSumToZero ==
  (style = "smatb" /\ pc \in {"pass2", "end"} /\ (newton_pair = 1 \/ atom.nghost = 0))
    => ForceSum = Vec0

\* one iteration of a pair loop of PairSMATB::compute: a pair at or beyond the
\* cutoff changes nothing, a pair inside it is processed
SmatbPairStep ==
  (style = "smatb" /\ pc \in {"pass1", "pass2"} /\ cur <= Len(PairSeq)) =>
    LET i == PairSeq[cur][1]
        j == NeighMask(PairSeq[cur][2])
        inside == Dijsq(i, j) < smatb.cutOffEnd2[atom.type[i]][atom.type[j]]
    IN /\ ~inside => UNCHANGED <<on_eb, f, eng_vdwl, eatom, nproc>>
       /\ inside => nproc' = nproc + 1

\* one call of lammpsNeighPairs: the neighbors it lists are those closer than the
\* cutoff and, when lower holds, farther than PodEps
PodAtomStep(lower) ==
  (style = "pod" /\ pc \in {"podpass1", "podpass2"} /\ cur <= list.inum) =>
    LET gi == list.ilist[cur]
    IN \A l \in 1 .. list.numneigh[gi] :
         LET gj == list.firstneigh[gi][l]
             rsq == Dijsq(gj, gi)
         IN (\E m \in 1 .. podtmp'.nij : podtmp'.ai[m] = gi /\ podtmp'.aj[m] = gj)
              <=> (rsq < FMul(pod.rcut, pod.rcut) /\ (lower => rsq > PodEps))

\* C6 (as stated): a neighbor pair at or beyond the cutoff contributes nothing, in
\* PairSMATB::compute and in CPairPOD::lammpsNeighPairs, and a pair strictly inside
\* the cutoff is always processed.
C6_StrictCutoff == [][SmatbPairStep /\ PodAtomStep(FALSE)]_vars

\* C6 (amended): as above, but CPairPOD::lammpsNeighPairs lists exactly the pairs
\* whose squared distance is below the squared cutoff and above 1e-20.
C6_StrictCutoffAbovePodEps == [][SmatbPairStep /\ PodAtomStep(TRUE)]_vars

\* the second pass has just passed over a pair exactly at the cutoff, after pairs
\* inside the cutoff were processed
C6_Witness ==
  /\ style = "smatb" /\ pc = "pass2" /\ cur > 1 /\ nproc > 0
  /\ Dijsq(PrevPair.i, PrevPair.j)
       = smatb.cutOffEnd2[atom.type[PrevPair.i]][atom.type[PrevPair.j]]

\* C7: no force loop divides by a zero separation: PairSMATB::compute never divides
\* fpair by a zero dij, and CPairPOD::lammpsNeighPairs lists no pair whose squared
\* distance is at most 1e-20.
C7_NoDivisionByZeroSeparation ==
  /\ ~divZero
  /\ (style = "pod" /\ podtmp.gi >= 0) =>
       \A m \in 1 .. podtmp.nij : Dijsq(podtmp.aj[m], podtmp.gi) > PodEps

(***************************************************************************)
(* PairSMATB::write_restart and read_restart.                              *)
(*                                                                         *)
(* The restart file is a sequence of bytes.  fwrite copies the bytes of an *)
(* int or of a double to the end of the file, fread copies the next bytes  *)
(* of the file into the variable; rank 0 alone reads, every value read is  *)
(* broadcast to the other ranks.                                           *)
(***************************************************************************)
NRanks == 2

Ranks == 0 .. NRanks - 1

\* sizeof(int), sizeof(double)
IntBytes == 4
DoubleBytes == 8

\* the w bytes of the value v, lowest first
RECURSIVE EncodeLE(_, _)
EncodeLE(v, w) == IF w = 0 THEN <<>> ELSE <<v % 256>> \o EncodeLE(v \div 256, w - 1)

\* the value of a sequence of bytes, lowest first
RECURSIVE DecodeLE(_)
DecodeLE(b) == IF b = <<>> THEN 0 ELSE b[1] + 256 * DecodeLE(Tail(b))

\* fread of w bytes at position pos; a read past the end of the file fails and
\* leaves the variable as it was
Fread(file, pos, w, old) ==
  IF pos + w - 1 <= Len(file) THEN DecodeLE(SubSeq(file, pos, pos + w - 1)) ELSE old

\* the type pairs in the order of the loops over i and j >= i
RECURSIVE UpperPairsFrom(_, _)
UpperPairsFrom(i, j) ==
  IF i > NTypes THEN <<>>
  ELSE IF j > NTypes THEN UpperPairsFrom(i + 1, i + 1)
  ELSE <<(<<i, j>>)>> \o UpperPairsFrom(i, j + 1)

UpperPairs == UpperPairsFrom(1, 1)

\* the order in which write_restart writes the parameters of a pair
WriteOrder == <<"r0", "p", "q", "A", "QSI", "cutOffStart", "cutOffEnd">>

ReadOrder_PQSwapped == <<"r0", "q", "p", "A", "QSI", "cutOffStart", "cutOffEnd">>

\* the order in which read_restart reads them
ReadOrder == <<"r0", "p", "q", "A", "QSI", "cutOffStart", "cutOffEnd">>

\* write_restart_settings: three ints
WriteRestartSettings(file, flags) ==
  file \o EncodeLE(flags[1], IntBytes) \o EncodeLE(flags[2], IntBytes)
       \o EncodeLE(flags[3], IntBytes)

RECURSIVE WriteParams(_, _, _, _)
WriteParams(t, i, j, k) ==
  IF k > Len(WriteOrder) THEN <<>>
  ELSE EncodeLE(t[WriteOrder[k]][i][j], DoubleBytes) \o WriteParams(t, i, j, k + 1)

\* write_restart, one iteration of its loops: setflag, then the parameters if it is set
WriteRestartRecord(file, t, i, j) ==
  file \o EncodeLE(t.setflag[i][j], IntBytes)
       \o (IF t.setflag[i][j] # 0 THEN WriteParams(t, i, j, 1) ELSE <<>>)

\* read_restart, the parameters of one pair, from position pos on
RECURSIVE ReadParams(_, _, _, _, _, _)
ReadParams(file, pos, t, i, j, k) ==
  IF k > Len(ReadOrder) THEN t
  ELSE LET nm == ReadOrder[k]
           v == Fread(file, pos, DoubleBytes, t[nm][i][j])
       IN ReadParams(file, pos + DoubleBytes, [t EXCEPT ![nm][i][j] = v], i, j, k + 1)

\* read_restart, one iteration of its loops: the tables and the file position after it
ReadRestartRecord(file, pos, t, i, j) ==
  LET flag == Fread(file, pos, IntBytes, t.setflag[i][j])
      t1 == [t EXCEPT !.setflag[i][j] = flag]
  IN IF flag # 0
     THEN [tab |-> ReadParams(file, pos + IntBytes, t1, i, j, 1),
           pos |-> pos + IntBytes + Len(ReadOrder) * DoubleBytes]
     ELSE [tab |-> t1, pos |-> pos + IntBytes]

\* the tables coeff leaves when it configures the pairs of cfg
RECURSIVE SmatbConfigure(_, _, _)
SmatbConfigure(t, cfg, k) ==
  IF k > Len(UpperPairs) THEN t
  ELSE LET ij == UpperPairs[k]
       IN SmatbConfigure(IF cfg[k] = "unset" THEN t
                         ELSE SmatbCoeffStore(t, {ij}, IF cfg[k] = "A" THEN PA ELSE PB),
                         cfg, k + 1)

RestartInit ==
  /\ style = "smatb"
  /\ fatal = NoError
  /\ \E cfg \in [1 .. Len(UpperPairs) -> {"unset", "A", "B"}] :
       smatb = SmatbConfigure(SmatbAllocate(SmatbNew), cfg, 1)
  /\ pod = PodNew
  /\ ret = Table(NoRet)
  /\ lastCall = NoCall
  /\ divZeroInit = FALSE
  /\ ncalls = 0
  /\ ComputeQuiet
  /\ sten = AuxIdle /\ nmaxatom = 0 /\ reax = AuxIdle /\ repl = AuxIdle
  /\ MoreQuiet
  /\ \E of \in {0, 1} :
       rst = [pc |-> "settings", flags |-> <<of, 0, 0>>, file |-> <<>>, k |-> 1,
              recs |-> <<>>, pos |-> 1,
              rflags |-> [r \in Ranks |-> <<Uninit, Uninit, Uninit>>],
              dst |-> [r \in Ranks |-> SmatbNew]]

\* write_restart up to its loops: write_restart_settings
WriteRestartBegin ==
  /\ rst.pc = "settings"
  /\ rst' = [rst EXCEPT !.pc = "write", !.file = WriteRestartSettings(rst.file, rst.flags)]
  /\ UNCHANGED <<setupVars, computeVars, moreVars, sten, nmaxatom, reax, repl>>

\* write_restart: one iteration of the loops, or their exit
WriteRestart ==
  /\ rst.pc = "write"
  /\ IF rst.k > Len(UpperPairs)
     THEN rst' = [rst EXCEPT !.pc = "rsettings", !.k = 1]
     ELSE LET ij == UpperPairs[rst.k]
              file2 == WriteRestartRecord(rst.file, smatb, ij[1], ij[2])
          IN rst' = [rst EXCEPT !.file = file2, !.k = rst.k + 1,
                                !.recs = Append(rst.recs,
                                                [i |-> ij[1], j |-> ij[2],
                                                 bytes |-> Len(file2) - Len(rst.file)])]
  /\ UNCHANGED <<setupVars, computeVars, moreVars, sten, nmaxatom, reax, repl>>

\* read_restart up to its loops: read_restart_settings, then allocate()
ReadRestartBegin ==
  /\ rst.pc = "rsettings"
  /\ LET fl == [m \in 1 .. 3 |->
                  Fread(rst.file, rst.pos + (m - 1) * IntBytes, IntBytes, rst.rflags[0][m])]
     IN rst' = [rst EXCEPT !.pc = "read", !.pos = rst.pos + 3 * IntBytes,
                           !.rflags = [r \in Ranks |-> fl],
                           !.dst = [r \in Ranks |-> SmatbAllocate(rst.dst[r])]]
  /\ UNCHANGED <<setupVars, computeVars, moreVars, sten, nmaxatom, reax, repl>>

\* read_restart: one iteration of the loops, or their exit
ReadRestart ==
  /\ rst.pc = "read"
  /\ IF rst.k > Len(UpperPairs)
     THEN rst' = [rst EXCEPT !.pc = "done"]
     ELSE LET ij == UpperPairs[rst.k]
              r0 == ReadRestartRecord(rst.file, rst.pos, rst.dst[0], ij[1], ij[2])
          IN rst' = [rst EXCEPT !.pos = r0.pos, !.k = rst.k + 1,
                                !.dst = [r \in Ranks |->
                                           ReadRestartRecord(rst.file, rst.pos, rst.dst[r],
                                                             ij[1], ij[2]).tab]]
  /\ UNCHANGED <<setupVars, computeVars, moreVars, sten, nmaxatom, reax, repl>>

RestartNext == WriteRestartBegin \/ WriteRestart \/ ReadRestartBegin \/ ReadRestart

SpecRestart == RestartInit /\ [][RestartNext]_vars

\* the restart file has been written and read back
RestartDone == rst.pc = "done"

\* the setflag and the seven parameters of every pair i <= j are restored on every
\* rank, and the reader has consumed the bytes the writer produced
RestartRestores ==
  /\ \A r \in Ranks : rst.rflags[r] = rst.flags
  /\ \A r \in Ranks : \A k \in 1 .. Len(UpperPairs) :
       LET i == UpperPairs[k][1]
           j == UpperPairs[k][2]
       IN /\ rst.dst[r].setflag[i][j] = smatb.setflag[i][j]
          /\ smatb.setflag[i][j] = 1 =>
               \A m \in 1 .. Len(WriteOrder) :
                 rst.dst[r][WriteOrder[m]][i][j] = smatb[WriteOrder[m]][i][j]
  /\ rst.pos = Len(rst.file) + 1

\* every record is a flag of flagBytes bytes, followed by the seven doubles when set
RecordLayout(flagBytes) ==
  /\ Len(rst.recs) = Len(UpperPairs)
  /\ \A k \in 1 .. Len(rst.recs) :
       /\ rst.recs[k].i = UpperPairs[k][1] /\ rst.recs[k].j = UpperPairs[k][2]
       /\ rst.recs[k].bytes =
            flagBytes + (IF smatb.setflag[rst.recs[k].i][rst.recs[k].j] = 1
                         THEN Len(WriteOrder) * DoubleBytes ELSE 0)

\* C11 (as stated): write_restart followed by read_restart restores setflag and the
\* seven parameters of every pair i <= j; the records are in increasing (i, j >= i)
\* order, each a has-coefficients flag of one byte followed, when set, by the
\* parameters; the reader consumes exactly the bytes written.
C11_RestartRoundTripOneByteFlag == RestartDone => (RestartRestores /\ RecordLayout(1))

\* C11 (amended): as above, with a has-coefficients flag of sizeof(int) bytes.
C11_RestartRoundTripIntFlag == RestartDone => (RestartRestores /\ RecordLayout(IntBytes))

\* a file holding a set and an unset pair, with p different from q, was read back
C11_Witness ==
  /\ RestartDone
  /\ \E k \in 1 .. Len(UpperPairs) : smatb.setflag[UpperPairs[k][1]][UpperPairs[k][2]] = 0
  /\ \E k \in 1 .. Len(UpperPairs) :
       LET i == UpperPairs[k][1]
           j == UpperPairs[k][2]
       IN smatb.setflag[i][j] = 1 /\ smatb.p[i][j] # smatb.q[i][j]
              /\ rst.dst[NRanks - 1].p[i][j] = smatb.p[i][j]

(***************************************************************************)
(* NStencilFullMultiOld3d::create.                                         *)
(*                                                                         *)
(* Lengths are integers.  The bin sizes, the stencil extents sx, sy, sz,   *)
(* the bin counts mbinx, mbiny and cuttypesq are set by NStencil and NBin  *)
(* before create() runs.                                                   *)
(***************************************************************************)
BinSizes == {1, 2}
CutSqChoices == {1, 3}

\* NStencil::bin_distance: the least squared distance between a point of the bin
\* and a point of the bin (i, j, k) bins away
BinDel(i, binsize) ==
  IF i > 0 THEN (i - 1) * binsize ELSE IF i = 0 THEN 0 ELSE (i + 1) * binsize

BinDistance(g, i, j, k) ==
  BinDel(i, g.binsize[1]) * BinDel(i, g.binsize[1])
  + BinDel(j, g.binsize[2]) * BinDel(j, g.binsize[2])
  + BinDel(k, g.binsize[3]) * BinDel(k, g.binsize[3])

\* NStencil::create_setup: the least extent s with s * binsize >= the largest cutoff
SExtent(binsize, cutmaxsq) ==
  CHOOSE e \in 0 .. cutmaxsq :
    /\ (e * binsize) * (e * binsize) >= cutmaxsq
    /\ \A d \in 0 .. e - 1 : (d * binsize) * (d * binsize) < cutmaxsq

\* the triples (i, j, k) in the order of the loops over k (outermost), j and i
Triples(g) ==
  LET nx == 2 * g.sx + 1
      ny == 2 * g.sy + 1
      nz == 2 * g.sz + 1
  IN [n \in 1 .. nx * ny * nz |->
        <<((n - 1) % nx) - g.sx, (((n - 1) \div nx) % ny) - g.sy,
          ((n - 1) \div (nx * ny)) - g.sz>>]

\* the offset of the bin (i, j, k) bins away
BinOffset(g, i, j, k) == k * g.mbiny * g.mbinx + j * g.mbinx + i

StencilKeep_Inclusive(rsq, typesq) == rsq <= typesq

\* the test of create()
StencilKeep(rsq, typesq) == rsq < typesq

\* create(), the body of the loop over itype: s, distsq and n for one type
StencilOfType(g, typesq) ==
  LET Keep(t) == StencilKeep(BinDistance(g, t[1], t[2], t[3]), typesq)
      kept == SelectSeq(Triples(g), Keep)
  IN [s |-> [n \in 1 .. Len(kept) |-> BinOffset(g, kept[n][1], kept[n][2], kept[n][3])],
      distsq |-> [n \in 1 .. Len(kept) |-> BinDistance(g, kept[n][1], kept[n][2], kept[n][3])],
      n |-> Len(kept)]

MaxOf(S) == CHOOSE m \in S : \A x \in S : x <= m

StencilInit ==
  /\ style = "smatb"
  /\ fatal = NoError
  /\ smatb = SmatbNew
  /\ pod = PodNew
  /\ ret = Table(NoRet)
  /\ lastCall = NoCall
  /\ divZeroInit = FALSE
  /\ ncalls = 0
  /\ ComputeQuiet
  /\ rst = AuxIdle /\ nmaxatom = 0 /\ reax = AuxIdle /\ repl = AuxIdle
  /\ MoreQuiet
  /\ \E bs \in [1 .. 3 -> BinSizes], cut \in [Types -> CutSqChoices], extra \in {1, 2} :
       LET cmax == MaxOf({cut[t] : t \in Types})
           ex == [d \in 1 .. 3 |-> SExtent(bs[d], cmax)]
       IN sten = [pc |-> "create", itype |-> 1,
                  binsize |-> bs, sx |-> ex[1], sy |-> ex[2], sz |-> ex[3],
                  mbinx |-> 2 * ex[1] + extra, mbiny |-> 2 * ex[2] + extra,
                  cuttypesq |-> cut,
                  stencil_multi_old |-> [t \in Types |-> <<>>],
                  distsq_multi_old |-> [t \in Types |-> <<>>],
                  nstencil_multi_old |-> [t \in Types |-> Uninit]]

\* create(): one iteration of the loop over itype, or its exit
StencilCreate ==
  /\ sten.pc = "create"
  /\ IF sten.itype > NTypes
     THEN sten' = [sten EXCEPT !.pc = "done"]
     ELSE LET r == StencilOfType(sten, sten.cuttypesq[sten.itype])
          IN sten' = [sten EXCEPT !.stencil_multi_old[sten.itype] = r.s,
                                  !.distsq_multi_old[sten.itype] = r.distsq,
                                  !.nstencil_multi_old[sten.itype] = r.n,
                                  !.itype = sten.itype + 1]
  /\ UNCHANGED <<setupVars, computeVars, moreVars, rst, nmaxatom, reax, repl>>

StencilNext == StencilCreate

SpecStencil == StencilInit /\ [][StencilNext]_vars

\* the triples within the stencil extents, and within extents one bin wider
InExtent(g) == {t \in (0 - g.sx .. g.sx) \X (0 - g.sy .. g.sy) \X (0 - g.sz .. g.sz) : TRUE}

Beyond(g) ==
  (0 - g.sx - 1 .. g.sx + 1) \X (0 - g.sy - 1 .. g.sy + 1) \X (0 - g.sz - 1 .. g.sz + 1)

\* the triples of the extents whose bins can hold an atom within the cutoff of type t
Near(g, t) == {w \in InExtent(g) : BinDistance(g, w[1], w[2], w[3]) < g.cuttypesq[t]}

SeqRange(q) == {q[n] : n \in DOMAIN q}

\* C12: after create(), the stencil of every type t holds, each exactly once, the
\* offsets of the triples of the extents whose bin_distance is strictly less than
\* cuttypesq[t]; distsq[n] is the bin distance of entry n and nstencil_multi_old[t]
\* the number of entries; no bin outside the stencil can hold an atom within the
\* cutoff; the stencil of a larger cutoff contains the stencil of a smaller one.
C12_StencilExact ==
  sten.pc = "done" =>
    \A t \in Types :
      LET st == sten.stencil_multi_old[t]
      IN /\ SeqRange(st) = {BinOffset(sten, w[1], w[2], w[3]) : w \in Near(sten, t)}
         /\ Len(st) = Cardinality(Near(sten, t))
         /\ \A n \in 1 .. Len(st) : \A m \in 1 .. Len(st) : st[n] = st[m] => n = m
         /\ \A n \in 1 .. Len(st) :
              \E w \in Near(sten, t) :
                /\ BinOffset(sten, w[1], w[2], w[3]) = st[n]
                /\ sten.distsq_multi_old[t][n] = BinDistance(sten, w[1], w[2], w[3])
         /\ sten.nstencil_multi_old[t] = Len(st)
         /\ \A w \in Beyond(sten) :
              BinDistance(sten, w[1], w[2], w[3]) < sten.cuttypesq[t] =>
                (w \in InExtent(sten) /\ BinOffset(sten, w[1], w[2], w[3]) \in SeqRange(st))
         /\ \A u \in Types :
              sten.cuttypesq[u] <= sten.cuttypesq[t] =>
                SeqRange(sten.stencil_multi_old[u]) \subseteq SeqRange(st)

\* stencils were created for two different cutoffs, and a bin of the extents lies
\* exactly at the smaller cutoff
C12_Witness ==
  /\ sten.pc = "done"
  /\ \E t \in Types, u \in Types :
       /\ sten.cuttypesq[u] < sten.cuttypesq[t]
       /\ sten.nstencil_multi_old[u] < sten.nstencil_multi_old[t]
       /\ \E w \in InExtent(sten) : BinDistance(sten, w[1], w[2], w[3]) = sten.cuttypesq[u]

\* C13: for every type the entries of the stencil are in the order of increasing
\* distsq: distsq[n] <= distsq[n+1] for consecutive entries.
C13_StencilSortedByDistance ==
  sten.pc = "done" =>
    \A t \in Types :
      \A n \in 1 .. Len(sten.distsq_multi_old[t]) - 1 :
        sten.distsq_multi_old[t][n] <= sten.distsq_multi_old[t][n + 1]

(***************************************************************************)
(* The growth of the scratch buffers of the force models: on_eb of         *)
(* PairSMATB::compute, the per-pair arrays of CPairPOD::compute, the       *)
(* per-atom arrays of CPairPOD::check_atommemory.                          *)
(***************************************************************************)
MaxNeed == 4

\* check_atommemory(inum, nall): nmaxatom after the test
CheckAtomMemory(cap, need) == IF cap < need THEN need ELSE cap

GrowCall(op, need, old) ==
  [op |-> op, i |-> need, j |-> old, sf |-> 0, conf |-> FALSE, failed |-> FALSE]

GrowInit ==
  /\ style \in {"smatb", "pod"}
  /\ fatal = NoError
  /\ smatb = SmatbNew
  /\ pod = PodNew
  /\ ret = Table(NoRet)
  /\ lastCall = NoCall
  /\ divZeroInit = FALSE
  /\ ncalls = 0
  /\ ComputeQuiet
  /\ AuxQuiet

\* PairSMATB::compute is entered with atom->nmax = need
GrowOnEb ==
  /\ style = "smatb"
  /\ \E need \in 0 .. MaxNeed :
       /\ nmax' = SmatbGrowOnEb(nmax, need)
       /\ lastCall' = GrowCall("on_eb", need, nmax)
  /\ UNCHANGED <<style, fatal, smatb, pod, ret, divZeroInit, ncalls, newton_pair, eflag, atom,
                 swaps, list, f, on_eb, eng_vdwl, eatom, podtmp, pc, cur, phaseLog, stamp,
                 preRev, nproc, divZero, ncompute, auxVars>>

\* the first loop of CPairPOD::compute reaches an atom with jnum neighbors
GrowPodTemp ==
  /\ style = "pod"
  /\ \E jnum \in 0 .. MaxNeed :
       /\ podtmp' = PodGrowTemp(podtmp, jnum)
       /\ lastCall' = GrowCall("nijmax", jnum, podtmp.nijmax)
  /\ UNCHANGED <<style, fatal, smatb, pod, ret, divZeroInit, ncalls, newton_pair, eflag, atom,
                 swaps, list, f, nmax, on_eb, eng_vdwl, eatom, pc, cur, phaseLog, stamp,
                 preRev, nproc, divZero, ncompute, auxVars>>

\* CPairPOD::check_atommemory(inum, nall)
GrowPodAtom ==
  /\ style = "pod"
  /\ \E need \in 0 .. MaxNeed :
       /\ nmaxatom' = CheckAtomMemory(nmaxatom, need)
       /\ lastCall' = GrowCall("nmaxatom", need, nmaxatom)
  /\ UNCHANGED <<style, fatal, smatb, pod, ret, divZeroInit, ncalls, computeVars, rst, sten,
                 reax, repl, moreVars>>

GrowNext == GrowOnEb \/ GrowPodTemp \/ GrowPodAtom

SpecGrow == GrowInit /\ [][GrowNext]_vars

\* the capacity of the buffer the last call looked at
CapacityOf(op) ==
  IF op = "on_eb" THEN nmax ELSE IF op = "nijmax" THEN podtmp.nijmax ELSE nmaxatom

\* C14: when a scratch buffer grows, its capacity grows by a multiplicative factor
\* over the old capacity (here: at least 3/2, the smallest factor in common use)
\* rather than to the exact size required; the capacity never shrinks and is at
\* least the size the current call requires.
C14_GeometricGrowth ==
  lastCall.op \in {"on_eb", "nijmax", "nmaxatom"} =>
    LET new == CapacityOf(lastCall.op)
        old == lastCall.j
    IN /\ new >= old
       /\ new >= lastCall.i
       /\ (new > old /\ old > 0) => (2 * new >= 3 * old /\ new > lastCall.i)

\* C15: CPairPOD::compute tolerates atoms with zero neighbors: every write of
\* lammpsNeighPairs (typeai[0], numneighsum[0..1], rij, ai, aj, ti, tj, idxi) goes
\* to a buffer that has been allocated, also when no atom seen so far had a
\* neighbor and nijmax is still 0.
C15_ZeroNeighborsAllocated ==
  (style = "pod" /\ podtmp.gi >= 0) => (podtmp.alloc /\ ~podtmp.oob)

\* C16: PairSMATB::compute leaves the neighbor list, the atom positions and types
\* and the per-type-pair coefficient tables unchanged; of the state of the run it
\* writes only the forces, on_eb and the energy accumulators (the capacity nmax of
\* on_eb and the position of the computation aside).
C16_ComputeFrame ==
  [][style = "smatb" =>
       UNCHANGED <<list, atom, smatb, pod, podtmp, newton_pair, eflag, swaps, fatal>>]_vars

\* a step of compute() has read a neighbor entry that carries special-bond bits
C16_Witness ==
  /\ style = "smatb" /\ pc = "pass2" /\ cur > 1
  /\ PairSeq[cur - 1][2] >= SBBit
  /\ nproc > 0

(***************************************************************************)
(* CPairPOD::init_style and PairReaxCOMP::init_style, setup and            *)
(* write_reax_atoms, run by every rank.                                    *)
(***************************************************************************)
MaxN == 3
MaxReaxSetups == 3

MAXSMALLINT == 2147483647

ErrReaxQ == "Pair reax/c/omp requires atom attribute q"
ErrReaxQeq == "Pair reax/c requires use of fix qeq/reax or qeq/shielded"
ErrReaxIds == "Pair style reax/c/omp requires atom IDs"
ErrReaxNewton == "Pair style reax/c/omp requires newton pair on"
ErrReaxTooMany == "Too many atoms for pair style reax/c/omp"
ErrReaxGhosts == "Too many ghost atoms"
ErrPodNewton == "Pair style POD requires newton pair on"
WarnReaxIds == "Some Atom-IDs are too large"
WarnReaxCut == "Total cutoff < 2*bond cutoff"

\* a bigint (64 bit) as hi * 2^31 + lo with 0 <= lo <= MAXSMALLINT
Big(hi, lo) == [hi |-> hi, lo |-> lo]

\* atom->natoms > MAXSMALLINT
BigGtSmallint(a) == a.hi > 0

\* static_cast<int>(natoms): the low 32 bits, read as a signed int
CastInt(a) == IF a.hi % 2 = 0 THEN a.lo ELSE (a.lo - MAXSMALLINT) - 1

MAX3(a, b, c) == MAX(MAX(a, b), c)

\* the lists of the ReaxFF workspace, api->lists[0 .. LIST_N - 1]
ReaxLists == {"BONDS", "OLD_BONDS", "THREE_BODIES", "HBONDS", "FAR_NBRS"}

\* (nonb_cut, hbond_cut, bond_cut) of the control record
ReaxCuts == {<<10, 6, 5>>, <<4, 6, 5>>, <<4, 0, 3>>}

\* the settings of the run, the same on every rank; safezone in tenths
ReaxConfigs ==
  [q_flag : BOOLEAN, have_qeq : BOOLEAN, qeqflag : {0, 1}, tag_enable : {0, 1},
   newton_pair : {0, 1}, map_tag_max : {99999999, 100000000},
   natoms : {Big(0, MaxN), Big(0, MAXSMALLINT), Big(1, 0)},
   cuts : ReaxCuts, rerun : BOOLEAN, nthreads : {2}, safezone : {12}, mincap : {2}]

\* what CPairPOD::init_style reads of the settings
PodConfigs ==
  {c \in ReaxConfigs : /\ c.q_flag /\ c.have_qeq /\ c.qeqflag = 1 /\ c.tag_enable = 1
                       /\ c.map_tag_max = 99999999 /\ c.natoms = Big(0, MaxN)
                       /\ c.cuts = <<10, 6, 5>> /\ ~c.rerun}

\* one rank before init_style; on a later run the fix and the lists of the
\* earlier run are still there
RankNew(c) ==
  [pc |-> "new", err |-> NoError, warnings |-> {}, requests |-> 0,
   nfix |-> IF c.rerun THEN 1 ELSE 0, fix_reax |-> c.rerun,
   allocated |-> [l \in ReaxLists |-> IF c.rerun THEN 1 ELSE 0],
   nthreads |-> 0, nlocal |-> 1, nghost |-> 0, n |-> 0, N |-> 0, bigN |-> 0, wsize |-> 0,
   setup_flag |-> 0, local_cap |-> 0, total_cap |-> 0, cap |-> 0, written |-> {},
   nsetup |-> 0]

\* error->all(FLERR, msg)
ReaxFail(s, msg) == [s EXCEPT !.pc = "failed", !.err = msg]

\* if (cond && (comm->me == 0)) error->warning(FLERR, msg)
ReaxWarn_AllRanks(s, cond, me, msg) ==
  IF cond THEN [s EXCEPT !.warnings = @ \cup {msg}] ELSE s

ReaxWarn(s, cond, me, msg) ==
  IF cond /\ me = 0 THEN [s EXCEPT !.warnings = @ \cup {msg}] ELSE s

\* force->newton_pair == 0
ReaxNewtonOff_Never(c) == FALSE

ReaxNewtonOff(c) == c.newton_pair = 0

\* CPairPOD::init_style
PodInitStyleResult(c, s) ==
  IF c.newton_pair = 0 THEN ReaxFail(s, ErrPodNewton)
  ELSE [s EXCEPT !.requests = @ + 1, !.pc = "inited"]

\* PairReaxCOMP::init_style on rank me
ReaxInitStyleResult(c, me, s) ==
  IF ~c.q_flag THEN ReaxFail(s, ErrReaxQ)
  ELSE IF ~c.have_qeq /\ c.qeqflag = 1 THEN ReaxFail(s, ErrReaxQeq)
  ELSE
    LET s1 == [s EXCEPT !.n = s.nlocal, !.N = s.nlocal + s.nghost,
                        !.bigN = CastInt(c.natoms), !.wsize = NRanks]
    IN IF c.tag_enable = 0 THEN ReaxFail(s1, ErrReaxIds)
       ELSE IF ReaxNewtonOff(c) THEN ReaxFail(s1, ErrReaxNewton)
       ELSE
         LET s2 == ReaxWarn(s1, c.map_tag_max > 99999999, me, WarnReaxIds)
         IN IF BigGtSmallint(c.natoms) THEN ReaxFail(s2, ErrReaxTooMany)
            ELSE
              LET s3 == [s2 EXCEPT !.requests = @ + 1]
                  cutmax == MAX3(c.cuts[1], c.cuts[2], c.cuts[3])
                  s4 == ReaxWarn(s3, cutmax < 2 * c.cuts[3], me, WarnReaxCut)
                  s5 == [s4 EXCEPT !.allocated = [l \in ReaxLists |-> 0]]
                  s6 == IF ~s5.fix_reax
                        THEN [s5 EXCEPT !.nfix = @ + 1, !.fix_reax = TRUE]
                        ELSE s5
              IN [s6 EXCEPT !.nthreads = c.nthreads, !.pc = "inited"]

\* api->system->N > api->system->total_cap
ReaxTooManyGhosts_Never(N, total_cap) == FALSE

ReaxTooManyGhosts(N, total_cap) == N > total_cap

\* PairReaxCOMP::write_reax_atoms
WriteReaxAtoms(s) ==
  IF ReaxTooManyGhosts(s.N, s.total_cap) THEN ReaxFail(s, ErrReaxGhosts)
  ELSE [s EXCEPT !.written = @ \cup (0 .. s.N - 1)]

\* MAX((int)(count * safezone), mincap)
ReaxCap(c, count) == MAX((count * c.safezone) \div 10, c.mincap)

\* ReAllocate: the arrays stay, or are enlarged for the present atom count
ReAllocate(c, s, grow) ==
  IF grow
  THEN LET t == MAX(s.total_cap, ReaxCap(c, s.N)) IN [s EXCEPT !.total_cap = t, !.cap = t]
  ELSE s

\* PairReaxCOMP::setup
ReaxSetupResult(c, s, grow) ==
  LET s1 == [s EXCEPT !.n = s.nlocal, !.N = s.nlocal + s.nghost,
                      !.bigN = CastInt(c.natoms), !.nsetup = @ + 1]
  IN IF s1.setup_flag = 0
     THEN LET s2 == [s1 EXCEPT !.setup_flag = 1,
                               !.local_cap = ReaxCap(c, s1.n),
                               !.total_cap = ReaxCap(c, s1.N)]
              s3 == [s2 EXCEPT !.cap = s2.total_cap]
          IN WriteReaxAtoms(s3)
     ELSE LET s2 == WriteReaxAtoms(s1)
          IN IF s2.pc = "failed" THEN s2 ELSE ReAllocate(c, s2, grow)

ReaxInit ==
  /\ style \in {"pod", "reaxc"}
  /\ fatal = NoError
  /\ smatb = SmatbNew
  /\ pod = PodNew
  /\ ret = Table(NoRet)
  /\ lastCall = NoCall
  /\ divZeroInit = FALSE
  /\ ncalls = 0
  /\ ComputeQuiet
  /\ rst = AuxIdle /\ sten = AuxIdle /\ nmaxatom = 0 /\ repl = AuxIdle
  /\ MoreQuiet
  /\ \E c \in (IF style = "pod" THEN PodConfigs ELSE ReaxConfigs) :
       reax = [pc |-> "run", cfg |-> c, rk |-> [r \in Ranks |-> RankNew(c)]]

PodInitStyle(r) ==
  /\ style = "pod" /\ reax.rk[r].pc = "new"
  /\ reax' = [reax EXCEPT !.rk[r] = PodInitStyleResult(reax.cfg, @)]
  /\ UNCHANGED <<setupVars, computeVars, moreVars, rst, sten, nmaxatom, repl>>

ReaxInitStyle(r) ==
  /\ style = "reaxc" /\ reax.rk[r].pc = "new"
  /\ reax' = [reax EXCEPT !.rk[r] = ReaxInitStyleResult(reax.cfg, r, @)]
  /\ UNCHANGED <<setupVars, computeVars, moreVars, rst, sten, nmaxatom, repl>>

\* the calls of setup() made so far by the ranks from r on
RECURSIVE ReaxSetupsFrom(_)
ReaxSetupsFrom(r) == IF r >= NRanks THEN 0 ELSE reax.rk[r].nsetup + ReaxSetupsFrom(r + 1)

\* a run is set up: the rank holds one local atom and ng ghosts by then
ReaxSetup(r) ==
  /\ style = "reaxc" /\ reax.rk[r].pc = "inited" /\ ReaxSetupsFrom(0) < MaxReaxSetups
  /\ \E ng \in 0 .. MaxN - 1, grow \in BOOLEAN :
       reax' = [reax EXCEPT !.rk[r] = ReaxSetupResult(reax.cfg, [@ EXCEPT !.nghost = ng], grow)]
  /\ UNCHANGED <<setupVars, computeVars, moreVars, rst, sten, nmaxatom, repl>>

ReaxNext == \E r \in Ranks : PodInitStyle(r) \/ ReaxInitStyle(r) \/ ReaxSetup(r)

SpecReax == ReaxInit /\ [][ReaxNext]_vars

ReaxOn == reax.pc = "run"

\* C17: init_style fails fatally when Newton pair is disabled, for CPairPOD and
\* for PairReaxCOMP; no neighbor-list request has been registered then and no
\* REAXC fix has been added.
C17_NewtonOffFails ==
  ReaxOn =>
    \A r \in Ranks :
      (reax.rk[r].pc # "new" /\ reax.cfg.newton_pair = 0) =>
        /\ reax.rk[r].pc = "failed" /\ reax.rk[r].err # NoError
        /\ reax.rk[r].requests = 0
        /\ reax.rk[r].nfix = RankNew(reax.cfg).nfix
        /\ reax.rk[r].fix_reax = RankNew(reax.cfg).fix_reax

\* PairReaxCOMP::init_style has stopped a rank at the Newton test
C17_Witness ==
  /\ ReaxOn /\ style = "reaxc"
  /\ \E r \in Ranks : reax.rk[r].err = ErrReaxNewton

\* the settings under which init_style stops with an error
ReaxFatalConfig(c) ==
  \/ ~c.q_flag
  \/ ~c.have_qeq /\ c.qeqflag = 1
  \/ c.tag_enable = 0
  \/ c.newton_pair = 0
  \/ BigGtSmallint(c.natoms)

ReaxCutSmall(c) == MAX3(c.cuts[1], c.cuts[2], c.cuts[3]) < 2 * c.cuts[3]

ReaxIdsLarge(c) == c.map_tag_max > 99999999

\* C18: a total cutoff below twice the bond cutoff, and atom IDs above 99999999,
\* give only a warning, on rank 0 alone; init_style runs to completion on every
\* rank: the allocated flags of the lists are reset, the REAXC fix exists and
\* nthreads is set.
C18_WarningsDoNotStop ==
  (ReaxOn /\ style = "reaxc" /\ ~ReaxFatalConfig(reax.cfg)) =>
    \A r \in Ranks :
      (reax.rk[r].pc # "new" /\ reax.rk[r].nsetup = 0) =>
        /\ reax.rk[r].pc = "inited" /\ reax.rk[r].err = NoError
        /\ \A l \in ReaxLists : reax.rk[r].allocated[l] = 0
        /\ reax.rk[r].fix_reax /\ reax.rk[r].nfix = 1
        /\ reax.rk[r].requests = 1
        /\ reax.rk[r].nthreads = reax.cfg.nthreads
        /\ reax.rk[r].warnings =
             IF r = 0
             THEN {w \in {WarnReaxCut} : ReaxCutSmall(reax.cfg)}
                  \cup {w \in {WarnReaxIds} : ReaxIdsLarge(reax.cfg)}
             ELSE {}

\* both warnings were due, on a later run; every rank is through init_style
C18_Witness ==
  /\ ReaxOn /\ style = "reaxc" /\ ~ReaxFatalConfig(reax.cfg)
  /\ ReaxCutSmall(reax.cfg) /\ ReaxIdsLarge(reax.cfg) /\ reax.cfg.rerun
  /\ \A r \in Ranks : reax.rk[r].pc = "inited"
  /\ reax.rk[0].warnings = {WarnReaxCut, WarnReaxIds}

\* C19: PairReaxCOMP never stores an atom beyond its capacity. init_style fails
\* when natoms exceeds MAXSMALLINT; a call of write_reax_atoms with N above
\* total_cap (on later calls of setup(): the total_cap left by the call before)
\* fails with 'Too many ghost atoms' and has written no entry of my_atoms;
\* every entry written lies inside the array.
C19_NoStoreBeyondCapacity ==
  /\ [](ReaxOn =>
         \A r \in Ranks :
           /\ reax.rk[r].written \subseteq 0 .. reax.rk[r].cap - 1
           /\ (reax.rk[r].pc # "new" /\ BigGtSmallint(reax.cfg.natoms)) =>
                (reax.rk[r].pc = "failed" /\ reax.rk[r].written = {}))
  /\ [][ReaxOn =>
         \A r \in Ranks :
           reax'.rk[r].nsetup > reax.rk[r].nsetup =>
             /\ (reax.rk[r].setup_flag = 1 /\ reax'.rk[r].N > reax.rk[r].total_cap) =>
                  reax'.rk[r].err = ErrReaxGhosts
             /\ reax'.rk[r].err = ErrReaxGhosts =>
                  (reax'.rk[r].pc = "failed" /\ reax'.rk[r].written = reax.rk[r].written
                   /\ reax'.rk[r].cap = reax.rk[r].cap)
             /\ reax'.rk[r].err = NoError =>
                  0 .. reax'.rk[r].N - 1 \subseteq reax'.rk[r].written]_vars

\* a later call of setup() has met more atoms than the arrays hold
C19_Witness ==
  /\ ReaxOn /\ style = "reaxc"
  /\ \E r \in Ranks :
       /\ reax.rk[r].err = ErrReaxGhosts /\ reax.rk[r].nsetup > 1
       /\ reax.rk[r].written # {} /\ reax.rk[r].N > reax.rk[r].cap

(***************************************************************************)
(* Replicate::command: the N1 x N2 x N3 images of a configuration, their   *)
(* atom tags and their bonded terms.                                       *)
(***************************************************************************)
MaxRep == 2
MaxTag == 4

\* the bonded terms of a chain through the atoms, as tuples of tags:
\* bonds (2 atoms), angles (3), dihedrals (4)
ChainTerms(tags) ==
  LET q == SetToSeq(tags)
  IN {SubSeq(q, w[1], w[1] + w[2] - 1) :
        w \in {v \in (1 .. Len(q)) \X (2 .. 4) : v[1] + v[2] - 1 <= Len(q)}}

\* the images made by the loops over iz, iy, ix
NImages(nrep) == nrep[1] * nrep[2] * nrep[3]

\* the ordinal of image (ix, iy, iz)
ImageOrdinal(ix, iy, iz, nrep) == iz * nrep[1] * nrep[2] + iy * nrep[1] + ix

\* the image with ordinal m
ImageOf(m, nrep) ==
  <<m % nrep[1], (m \div nrep[1]) % nrep[2], m \div (nrep[1] * nrep[2])>>

\* the tag offset of an image
AtomOffset_MaxLess(m, maxtag) == m * (maxtag - 1)

AtomOffset(m, maxtag) == m * maxtag

\* the tag of the copy of atom tag in image m
NewTag(tag, m, maxtag) == tag + AtomOffset(m, maxtag)

\* the copy of a bonded term in image m
NewTerm(t, m, maxtag) == [k \in 1 .. Len(t) |-> NewTag(t[k], m, maxtag)]

ReplicateInit ==
  /\ style = "none"
  /\ fatal = NoError
  /\ smatb = SmatbNew
  /\ pod = PodNew
  /\ ret = Table(NoRet)
  /\ lastCall = NoCall
  /\ divZeroInit = FALSE
  /\ ncalls = 0
  /\ ComputeQuiet
  /\ rst = AuxIdle /\ sten = AuxIdle /\ nmaxatom = 0 /\ reax = AuxIdle
  /\ MoreQuiet
  /\ \E nrep \in (1 .. MaxRep) \X (1 .. MaxRep) \X (1 .. MaxRep),
        tags \in (SUBSET (1 .. MaxTag)) \ {{}} :
       repl = [pc |-> "loop", nrep |-> nrep, old_tag |-> tags, maxtag |-> MaxOf(tags),
               old_terms |-> ChainTerms(tags), thisrep |-> <<0, 0, 0>>,
               atoms |-> {}, terms |-> {}]

\* one pass of the loops over the images: the atoms of the image and its terms
ReplicateImage ==
  /\ repl.pc = "loop"
  /\ LET m == ImageOrdinal(repl.thisrep[1], repl.thisrep[2], repl.thisrep[3], repl.nrep)
     IN repl' =
          [repl EXCEPT
             !.atoms = @ \cup {[tag |-> NewTag(t, m, repl.maxtag), img |-> m, old |-> t] :
                                 t \in repl.old_tag},
             !.terms = @ \cup {[tags |-> NewTerm(t, m, repl.maxtag), img |-> m, old |-> t] :
                                 t \in repl.old_terms},
             !.thisrep = IF m + 1 < NImages(repl.nrep) THEN ImageOf(m + 1, repl.nrep) ELSE @,
             !.pc = IF m + 1 < NImages(repl.nrep) THEN "loop" ELSE "done"]
  /\ UNCHANGED <<setupVars, computeVars, moreVars, rst, sten, nmaxatom, reax>>

ReplicateNext == ReplicateImage

SpecReplicate == ReplicateInit /\ [][ReplicateNext]_vars

\* the atom of the replicated system that carries a tag
AtomsTagged(t) == {a \in repl.atoms : a.tag = t}

\* C20: every atom of every image has a tag that is unique in the replicated
\* system; (original tag, image) -> new tag is a function with an inverse; every
\* bond, angle and dihedral of an image refers, through tags shifted by the
\* offset of that image, to atoms of that same image.
C20_ReplicaTagsUnique ==
  repl.pc \in {"loop", "done"} =>
    /\ \A a, b \in repl.atoms : a.tag = b.tag => a = b
    /\ \A a \in repl.atoms :
         /\ a.tag = NewTag(a.old, a.img, repl.maxtag)
         /\ a.old = ((a.tag - 1) % repl.maxtag) + 1
         /\ a.img = (a.tag - 1) \div repl.maxtag
    /\ \A t \in repl.terms :
         \A k \in 1 .. Len(t.tags) :
           /\ t.tags[k] - t.old[k] = t.tags[1] - t.old[1]
           /\ \E a \in repl.atoms : AtomsTagged(t.tags[k]) = {a} /\ a.img = t.img /\ a.old = t.old[k]
    /\ repl.pc = "done" =>
         Cardinality(repl.atoms) = NImages(repl.nrep) * Cardinality(repl.old_tag)

\* a replication along all three directions of a chain with an angle and a gap in
\* its tags is complete
C20_Witness ==
  /\ repl.pc = "done"
  /\ \A d \in 1 .. 3 : repl.nrep[d] > 1
  /\ Cardinality(repl.old_tag) < repl.maxtag
  /\ \E t \in repl.terms : Len(t.tags) = 3 /\ t.img = NImages(repl.nrep) - 1

(***************************************************************************)
(* The neighbor list builder over the bins and the stencil of create():    *)
(* half (Newton off) and full lists of atoms on a small lattice.           *)
(***************************************************************************)
\* the lattice points an atom can sit on
NeighSites == (0 .. 2) \X (0 .. 1) \X (0 .. 1)

\* the squared distance of two points
SiteDsq(a, b) ==
  (a[1] - b[1]) * (a[1] - b[1]) + (a[2] - b[2]) * (a[2] - b[2]) + (a[3] - b[3]) * (a[3] - b[3])

\* the bin of a point: stencil-wide margins of bins lie around the box
Coord2Bin(g, a) ==
  ((a[3] \div g.binsize[3]) + g.sz) * g.mbiny * g.mbinx
  + ((a[2] \div g.binsize[2]) + g.sy) * g.mbinx
  + ((a[1] \div g.binsize[1]) + g.sx)

\* the distance test of the builder
NeighWithin_Inclusive(rsq, cutsq) == rsq <= cutsq

NeighWithin(rsq, cutsq) == rsq < cutsq

\* the neighbors of atom i: the atoms j of the stenciled bins that pass the
\* convention of the list (full: j # i; half, Newton off: j > i) and the distance
\* test, in the order of the loop over the stencil and of the atoms of each bin
NeighScan(g, i, half) ==
  LET n == Len(g.x)
      Pass(j) == /\ IF half THEN j > i ELSE j # i
                 /\ NeighWithin(SiteDsq(g.x[i], g.x[j]), g.cutsq)
      Entries(j) == LET d == Coord2Bin(g, g.x[j]) - Coord2Bin(g, g.x[i])
                    IN {k \in DOMAIN g.stencil : g.stencil[k] = d}
      keys == UNION {{k * (n + 1) + j : k \in Entries(j)} : j \in {a \in 1 .. n : Pass(a)}}
      q == SetToSeq(keys)
  IN [m \in 1 .. Len(q) |-> q[m] % (n + 1)]

NeighInit ==
  /\ style = "none"
  /\ fatal = NoError
  /\ smatb = SmatbNew
  /\ pod = PodNew
  /\ ret = Table(NoRet)
  /\ lastCall = NoCall
  /\ divZeroInit = FALSE
  /\ ncalls = 0
  /\ ComputeQuiet
  /\ rst = AuxIdle /\ nmaxatom = 0 /\ reax = AuxIdle /\ repl = AuxIdle
  /\ MoreQuiet
  /\ \E b \in BinSizes, cut \in CutSqChoices :
       LET e == SExtent(b, cut)
       IN sten = [pc |-> "create", i |-> 1, x |-> <<>>, cutsq |-> cut,
                  binsize |-> <<b, b, b>>, sx |-> e, sy |-> e, sz |-> e,
                  mbinx |-> (2 \div b) + 1 + 2 * e, mbiny |-> (1 \div b) + 1 + 2 * e,
                  stencil |-> <<>>, half |-> <<>>, full |-> <<>>]

\* create() for the one type of the atoms
NeighCreate ==
  /\ sten.pc = "create"
  /\ sten' = [sten EXCEPT !.stencil = StencilOfType(sten, sten.cutsq).s, !.pc = "bin"]
  /\ UNCHANGED <<setupVars, computeVars, moreVars, rst, nmaxatom, reax, repl>>

\* the atoms of the configuration are put into the bins
NeighBin ==
  /\ sten.pc = "bin"
  /\ \E x \in [1 .. MaxAtoms -> NeighSites] :
       sten' = [sten EXCEPT !.x = x, !.pc = "build",
                            !.half = [a \in 1 .. MaxAtoms |-> <<>>],
                            !.full = [a \in 1 .. MaxAtoms |-> <<>>]]
  /\ UNCHANGED <<setupVars, computeVars, moreVars, rst, nmaxatom, reax, repl>>

\* build(): one iteration of the loop over the atoms, for both lists
NeighBuild ==
  /\ sten.pc = "build"
  /\ IF sten.i > Len(sten.x)
     THEN sten' = [sten EXCEPT !.pc = "built"]
     ELSE sten' = [sten EXCEPT !.half[sten.i] = NeighScan(sten, sten.i, TRUE),
                               !.full[sten.i] = NeighScan(sten, sten.i, FALSE),
                               !.i = sten.i + 1]
  /\ UNCHANGED <<setupVars, computeVars, moreVars, rst, nmaxatom, reax, repl>>

NeighNext == NeighCreate \/ NeighBin \/ NeighBuild

SpecNeigh == NeighInit /\ [][NeighNext]_vars

\* the entries of a list that are j
Occurrences(q, j) == Cardinality({n \in DOMAIN q : q[n] = j})

\* the pairs a scan over all pairs finds: squared distance strictly below the cutoff
BruteForce(i) ==
  {j \in (1 .. Len(sten.x)) \ {i} : SiteDsq(sten.x[i], sten.x[j]) < sten.cutsq}

\* C21: a list built through the bins and the stencil holds every pair whose
\* squared distance is strictly below the squared cutoff exactly once in the half
\* list (j listed for i only when j > i) and exactly twice in the full list (once
\* from each side), and no other pair: the same pairs as a scan over all pairs.
C21_NeighborListComplete ==
  sten.pc = "built" =>
    \A i \in 1 .. Len(sten.x) :
      /\ SeqRange(sten.full[i]) = BruteForce(i)
      /\ SeqRange(sten.half[i]) = {j \in BruteForce(i) : j > i}
      /\ \A j \in BruteForce(i) :
           /\ Occurrences(sten.full[i], j) = 1
           /\ Occurrences(sten.full[j], i) = 1
           /\ Occurrences(sten.half[i], j) + Occurrences(sten.half[j], i) = 1

\* the lists are built; a pair lies inside the cutoff in bins that are not the
\* same, another pair lies exactly at the cutoff
C21_Witness ==
  /\ sten.pc = "built"
  /\ \E i, j \in 1 .. Len(sten.x) :
       /\ j \in BruteForce(i) /\ Coord2Bin(sten, sten.x[i]) # Coord2Bin(sten, sten.x[j])
  /\ \E i, j \in 1 .. Len(sten.x) : SiteDsq(sten.x[i], sten.x[j]) = sten.cutsq

(***************************************************************************)
(* The switching polynomials of PairSMATB in exact arithmetic: numbers are *)
(* fractions n/d in lowest terms; QNaN stands for every non-finite value.  *)
(***************************************************************************)
RECURSIVE GCD(_, _)
GCD(a, b) == IF b = 0 THEN a ELSE GCD(b, a % b)

Abs(a) == IF a < 0 THEN 0 - a ELSE a

QNaN == [n |-> 0, d |-> 0]

Q(n, d) ==
  IF d = 0 THEN QNaN
  ELSE LET g == GCD(Abs(n), Abs(d))
       IN IF d > 0 THEN [n |-> n \div g, d |-> d \div g]
          ELSE [n |-> (0 - n) \div g, d |-> (0 - d) \div g]

QI(k) == Q(k, 1)
QFinite(a) == a.d # 0
QAdd(a, b) == IF QFinite(a) /\ QFinite(b) THEN Q(a.n * b.d + b.n * a.d, a.d * b.d) ELSE QNaN
QSub(a, b) == IF QFinite(a) /\ QFinite(b) THEN Q(a.n * b.d - b.n * a.d, a.d * b.d) ELSE QNaN
QMul(a, b) == IF QFinite(a) /\ QFinite(b) THEN Q(a.n * b.n, a.d * b.d) ELSE QNaN
QDiv(a, b) == IF QFinite(a) /\ QFinite(b) THEN Q(a.n * b.d, a.d * b.n) ELSE QNaN
QNeg(a) == QSub(QI(0), a)

\* exp, by its series up to the second order; what is checked of the polynomials
\* is linear in its value
QExp(a) == QAdd(QAdd(QI(1), a), QDiv(QMul(a, a), QI(2)))

\* the parameters of one pair of types as coeff() stores them
SwitchParams ==
  [r0 : {QI(0), QI(3)}, p : {QI(2), QI(3)}, q : {QI(1), QI(2)}, A : {Q(1, 2), QI(1)},
   QSI : {QI(1), Q(6, 5)}, cutOffStart : {QI(3), QI(4)}, cutOffEnd : {QI(4), QI(5)}]

\* A * exp(p * (1 - r / r0)): the unswitched term at distance r
SwitchExpTerm(A, p, r0, r) == QMul(A, QExp(QMul(p, QSub(QI(1), QDiv(r, r0)))))

\* the coefficients of one polynomial, from e = the unswitched term at cutOffStart
SwitchPoly(e, a, b, c, es, es2) ==
  [c5 |-> QDiv(QMul(e, QAdd(QAdd(QMul(QI(12), a), QMul(QI(6), b)), c)), QMul(QI(2), es2)),
   c4 |-> QDiv(QMul(e, QAdd(QAdd(QMul(QI(15), a), QMul(QI(7), b)), c)), es),
   c3 |-> QDiv(QMul(e, QAdd(QAdd(QMul(QI(20), a), QMul(QI(8), b)), c)), QI(2))]

\* init_one(): a3, a4, a5 and x3, x4, x5
SwitchInitOneCoeffs(P) ==
  LET es == QSub(P.cutOffEnd, P.cutOffStart)
      es2 == QMul(es, es)
      es3 == QMul(es2, es)
      expp == SwitchExpTerm(P.A, P.p, P.r0, P.cutOffStart)
      ap == QDiv(QI(0 - 1), es3)
      bp == QDiv(P.p, QMul(P.r0, es2))
      cp == QDiv(QNeg(QMul(P.p, P.p)), QMul(QMul(es, P.r0), P.r0))
      expq == SwitchExpTerm(P.QSI, P.q, P.r0, P.cutOffStart)
      aq == QDiv(QI(0 - 1), es3)
      bq == QDiv(P.q, QMul(es2, P.r0))
      cq == QDiv(QNeg(QMul(P.q, P.q)), QMul(QMul(es, P.r0), P.r0))
  IN [a |-> SwitchPoly(expp, ap, bp, cp, es, es2), x |-> SwitchPoly(expq, aq, bq, cq, es, es2)]

\* compute(), the branch dij >= cutOffStart: the polynomial c and its derivative
\* at distance r (aexpp and -Fr/2 for a; qsiexpq before squaring and Fb/qsiexpq for x)
SwitchPolyAt(c, P, r) ==
  LET w == QSub(r, P.cutOffEnd)
      w2 == QMul(w, w)
      w3 == QMul(w2, w)
      w4 == QMul(w3, w)
      w5 == QMul(w4, w)
  IN [val |-> QAdd(QAdd(QMul(c.c5, w5), QMul(c.c4, w4)), QMul(c.c3, w3)),
      d1 |-> QAdd(QAdd(QMul(QMul(QI(5), c.c5), w4), QMul(QMul(QI(4), c.c4), w3)),
                  QMul(QMul(QI(3), c.c3), w2)),
      d2 |-> QAdd(QAdd(QMul(QMul(QI(20), c.c5), w3), QMul(QMul(QI(12), c.c4), w2)),
                  QMul(QMul(QI(6), c.c3), w))]

\* compute(), the branch dij < cutOffStart: the term A*exp(p*espo) and its
\* derivative -(p / r0) * A*exp(p*espo) (aexpp and -Fr/2)
SwitchExpAt(A, p, r0, r) ==
  LET v == SwitchExpTerm(A, p, r0, r)
  IN [val |-> v, d1 |-> QNeg(QMul(v, QDiv(p, r0)))]

SwitchInit ==
  /\ style = "smatb"
  /\ fatal = NoError
  /\ smatb = SmatbNew
  /\ pod = PodNew
  /\ ret = Table(NoRet)
  /\ lastCall = NoCall
  /\ divZeroInit = FALSE
  /\ ncalls = 0
  /\ ComputeQuiet
  /\ rst = AuxIdle /\ sten = AuxIdle /\ nmaxatom = 0 /\ reax = AuxIdle /\ repl = AuxIdle
  /\ gpu = AuxIdle /\ roll = AuxIdle
  /\ \E P \in SwitchParams : switch = [pc |-> "coeff", P |-> P]

\* init_one(i, j) for the pair
SwitchInitOne ==
  /\ switch.pc = "coeff"
  /\ switch' = [pc |-> "ready", P |-> switch.P, c |-> SwitchInitOneCoeffs(switch.P)]
  /\ UNCHANGED <<setupVars, computeVars, rst, sten, nmaxatom, reax, repl, gpu, roll>>

\* compute() meets the pair at one of the two boundaries of the switching region
SwitchCompute ==
  /\ switch.pc = "ready"
  /\ \E r \in {switch.P.cutOffStart, switch.P.cutOffEnd} :
       switch' = [pc |-> "met", P |-> switch.P, c |-> switch.c, r |-> r,
                  a |-> SwitchPolyAt(switch.c.a, switch.P, r),
                  x |-> SwitchPolyAt(switch.c.x, switch.P, r)]
  /\ UNCHANGED <<setupVars, computeVars, rst, sten, nmaxatom, reax, repl, gpu, roll>>

SwitchNext == SwitchInitOne \/ SwitchCompute

SpecSwitch == SwitchInit /\ [][SwitchNext]_vars

\* the polynomial values v continue the unswitched term e at the inner boundary
SwitchMatches(v, e) == QFinite(v.val) /\ v.val = e.val /\ v.d1 = e.d1

\* the polynomial values v vanish with two derivatives
SwitchVanishes(v) == v.val = QI(0) /\ v.d1 = QI(0) /\ v.d2 = QI(0)

\* the parameters for which init_one() divides by nothing that is zero
SwitchRegular(P) == P.r0 # QI(0) /\ P.cutOffEnd # P.cutOffStart

\* C22: the polynomials of init_one() (a3, a4, a5 and x3, x4, x5) match the
\* unswitched exponential in value and first derivative at r = cutOffStart, and
\* have value, first and second derivative zero at r = cutOffEnd.
C22_SwitchingContinuous ==
  switch.pc = "met" =>
    LET P == switch.P
    IN /\ switch.r = P.cutOffStart =>
            /\ SwitchMatches(switch.a, SwitchExpAt(P.A, P.p, P.r0, switch.r))
            /\ SwitchMatches(switch.x, SwitchExpAt(P.QSI, P.q, P.r0, switch.r))
       /\ switch.r = P.cutOffEnd =>
            (SwitchVanishes(switch.a) /\ SwitchVanishes(switch.x))

\* the same, for the parameters that keep init_one() away from a division by zero
C22_ContinuousWhenRegular == SwitchRegular(switch.P) => C22_SwitchingContinuous

(***************************************************************************)
(* PairReaxCOMP::write_reax_lists: the scan of the offsets and the         *)
(* parallel loop that fills the far-neighbor list.                         *)
(***************************************************************************)
NThreads == 2

Threads == 1 .. NThreads

\* the squared distances of the neighbors of one atom, in the order of jlist;
\* nonb_cut = 10 and bond_cut = 5
NbrChoices == {<<>>, <<101, 25>>, <<26, 100>>}

\* SQR(nonb_cut) for a local atom, SQR(bond_cut) for a ghost
ReaxCutoffSqr(i, inum) == IF i < inum THEN 10 * 10 ELSE 5 * 5

\* d_sqr <= cutoff_sqr
ReaxIsFar(d_sqr, cutoff_sqr) == d_sqr <= cutoff_sqr

\* the sumscan: num_nbrs_offset[i] is the number of neighbors of the atoms before i
RECURSIVE ReaxOffset(_, _)
ReaxOffset_ByIndex(numneigh, i) == i

ReaxOffset(numneigh, i) ==
  IF i = 0 THEN 0 ELSE ReaxOffset(numneigh, i - 1) + numneigh[i - 1]

ThreadIdle == [i |-> 0 - 1, itr_j |-> 0, num_mynbrs |-> 0]

ReaxListsInit ==
  /\ style = "reaxc"
  /\ fatal = NoError
  /\ smatb = SmatbNew
  /\ pod = PodNew
  /\ ret = Table(NoRet)
  /\ lastCall = NoCall
  /\ divZeroInit = FALSE
  /\ ncalls = 0
  /\ ComputeQuiet
  /\ rst = AuxIdle /\ sten = AuxIdle /\ nmaxatom = 0 /\ repl = AuxIdle
  /\ MoreQuiet
  /\ \E inum \in 1 .. MaxN, d \in [0 .. MaxN - 1 -> NbrChoices] :
       reax = [pc |-> "scan", numall |-> MaxN, inum |-> inum, d_sqr |-> d,
               numneigh |-> [i \in 0 .. MaxN - 1 |-> Len(d[i])],
               num_nbrs_offset |-> [i \in 0 .. MaxN - 1 |-> Uninit],
               next |-> 0,
               thr |-> [t \in Threads |-> ThreadIdle],
               far |-> <<>>,
               start |-> [i \in 0 .. MaxN - 1 |-> Uninit],
               end |-> [i \in 0 .. MaxN - 1 |-> Uninit]]

\* the serial loop before the parallel region; every slot of far_list is unwritten
ReaxListsScan ==
  /\ reax.pc = "scan"
  /\ reax' = [reax EXCEPT
                !.pc = "parallel",
                !.num_nbrs_offset = [i \in 0 .. reax.numall - 1 |-> ReaxOffset(reax.numneigh, i)],
                !.far = [k \in 1 .. ReaxOffset(reax.numneigh, reax.numall) |-> {}]]
  /\ UNCHANGED <<setupVars, computeVars, moreVars, rst, sten, nmaxatom, repl>>

\* a thread is handed the next iteration of the loop and sets the start index
ReaxListsTake(t) ==
  /\ reax.pc = "parallel" /\ reax.thr[t].i < 0 /\ reax.next < reax.numall
  /\ reax' = [reax EXCEPT !.thr[t] = [i |-> reax.next, itr_j |-> 0, num_mynbrs |-> 0],
                          !.start[reax.next] = reax.num_nbrs_offset[reax.next],
                          !.next = reax.next + 1]
  /\ UNCHANGED <<setupVars, computeVars, moreVars, rst, sten, nmaxatom, repl>>

\* a thread runs one iteration of the inner loop, or leaves it and sets the end index
ReaxListsStep(t) ==
  /\ reax.pc = "parallel" /\ reax.thr[t].i >= 0
  /\ LET i == reax.thr[t].i
         jj == reax.thr[t].itr_j
         n == reax.thr[t].num_mynbrs
         slot == reax.num_nbrs_offset[i] + n
     IN IF jj < reax.numneigh[i]
        THEN IF ReaxIsFar(reax.d_sqr[i][jj + 1], ReaxCutoffSqr(i, reax.inum))
             THEN reax' = [reax EXCEPT !.far[slot + 1] = @ \cup {<<i, jj, Cardinality(@)>>},
                                       !.thr[t].num_mynbrs = n + 1,
                                       !.thr[t].itr_j = jj + 1]
             ELSE reax' = [reax EXCEPT !.thr[t].itr_j = jj + 1]
        ELSE reax' = [reax EXCEPT !.end[i] = slot, !.thr[t] = ThreadIdle]
  /\ UNCHANGED <<setupVars, computeVars, moreVars, rst, sten, nmaxatom, repl>>

ReaxListsNext == ReaxListsScan \/ \E t \in Threads : ReaxListsTake(t) \/ ReaxListsStep(t)

SpecReaxLists == ReaxListsInit /\ [][ReaxListsNext]_vars

\* the slots of atom i
ReaxSlots(i) ==
  reax.num_nbrs_offset[i] .. (reax.num_nbrs_offset[i] + reax.numneigh[i] - 1)

\* C23: the slots written for atom i lie in [num_nbrs_offset[i],
\* num_nbrs_offset[i] + numneigh[i]); these ranges are pairwise disjoint, the
\* offsets being the prefix sums of numneigh; no slot is written twice under any
\* interleaving of the threads; when the iteration of atom i is over,
\* End_Index(i) - Start_Index(i) is the number of neighbors of i with
\* d_sqr <= cutoff_sqr (nonb_cut for i < inum, bond_cut otherwise).
C23_FarSlotsDisjoint ==
  reax.pc = "parallel" =>
    /\ \A i, k \in 0 .. reax.numall - 1 : i # k => ReaxSlots(i) \cap ReaxSlots(k) = {}
    /\ \A s \in DOMAIN reax.far :
         /\ Cardinality(reax.far[s]) <= 1
         /\ \A w \in reax.far[s] : s - 1 \in ReaxSlots(w[1])
    /\ \A i \in 0 .. reax.numall - 1 :
         reax.end[i] # Uninit =>
           reax.end[i] - reax.start[i] =
             Cardinality({jj \in 1 .. reax.numneigh[i] :
                            reax.d_sqr[i][jj] <= ReaxCutoffSqr(i, reax.inum)})

\* two threads are inside the loop at once, each has written a slot; the ghost
\* atom among them has skipped a neighbor that lies between the two cutoffs
C23_Witness ==
  /\ reax.pc = "parallel"
  /\ \E t, u \in Threads :
       /\ t # u /\ reax.thr[t].num_mynbrs > 0 /\ reax.thr[u].num_mynbrs > 0
       /\ reax.thr[u].i >= reax.inum /\ reax.thr[u].itr_j > reax.thr[u].num_mynbrs

MaxPairAtoms == 2
MaxPairCalls == 3
\* columns of a row of tmpid and tmpbo
MAXSPECBOND == 2
\* longest bond list of one atom explored
MaxBonds == MAXSPECBOND + 1

PairAtoms == 0 .. MaxPairAtoms - 1

\* setup(): num_nbrs_offset is recreated with N entries when N > nmax
ReaxOffsetGrow_Local(N, cap, size) == IF N > cap THEN N - 1 ELSE size
ReaxOffsetGrow(N, cap, size) == IF N > cap THEN N ELSE size

\* setup(): oldN is assigned after system->N has been set to the current count
ReaxOldN(N, prevN) == N

\* setup(): the bond-list end index of the atoms oldN .. N-1 is set to the start index
ReaxResetBonds(bonded, oldN, N) == [k \in PairAtoms |-> IF k >= oldN /\ k < N THEN FALSE ELSE bonded[k]]

\* FindBond(): the test that follows the write and the increment of nj
ReaxTooManyBonds(nj) == nj > MAXSPECBOND

\* the state the constructors leave: no offsets, setup_flag and nmax zero
ReaxPairInit ==
  /\ style = "reaxc"
  /\ fatal = NoError
  /\ smatb = SmatbNew
  /\ pod = PodNew
  /\ ret = Table(NoRet)
  /\ lastCall = NoCall
  /\ divZeroInit = FALSE
  /\ ncalls = 0
  /\ ComputeQuiet
  /\ rst = AuxIdle /\ sten = AuxIdle /\ nmaxatom = 0 /\ repl = AuxIdle
  /\ MoreQuiet
  /\ reax = [pc |-> "idle", calls |-> 0, n |-> 0, N |-> 0, oldN |-> 0, prevN |-> 0,
             setup_flag |-> 0, inits |-> 0, branch |-> "none",
             nmax |-> 0, offsets |-> 0, fixspecies_flag |-> 0,
             bonded |-> [k \in PairAtoms |-> FALSE], rows |-> 0, err |-> NoError]

\* compute() up to the return of setup(), for nlocal = nl, nghost = ng
ReaxPairSetup(nl, ng, fs) ==
  /\ reax.pc = "idle" /\ reax.calls < MaxPairCalls
  /\ LET N == nl + ng
         oldN == ReaxOldN(N, reax.N)
         first == reax.setup_flag = 0
     IN reax' = [reax EXCEPT
                   !.pc = "lists", !.calls = @ + 1,
                   !.n = nl, !.N = N, !.oldN = oldN, !.prevN = reax.N,
                   !.fixspecies_flag = fs,
                   !.offsets = ReaxOffsetGrow(N, reax.nmax, @),
                   !.setup_flag = 1,
                   !.inits = IF first THEN @ + 1 ELSE @,
                   !.branch = IF first THEN "init" ELSE "realloc",
                   !.bonded = IF first THEN @ ELSE ReaxResetBonds(@, oldN, N)]
  /\ UNCHANGED <<setupVars, computeVars, moreVars, rst, sten, nmaxatom, repl>>

\* write_reax_lists() and the force computation, which rebuilds the bond
\* lists of the atoms 0 .. N-1: bonded[k] says that the list of k is not empty
ReaxPairForces(bonded) ==
  /\ reax.pc = "lists"
  /\ \A k \in PairAtoms : k >= reax.N => bonded[k] = reax.bonded[k]
  /\ reax' = [reax EXCEPT !.pc = IF reax.fixspecies_flag = 1 THEN "species" ELSE "idle",
                          !.bonded = bonded]
  /\ UNCHANGED <<setupVars, computeVars, moreVars, rst, sten, nmaxatom, repl>>

\* the end of compute() with a species fix: tmpid and tmpbo grow to nmax = N
\* rows, are cleared, and FindBond() runs; it fails when a local atom has
\* too many bonds
ReaxPairSpecies(many) ==
  /\ reax.pc = "species"
  /\ many => \E k \in PairAtoms : k < reax.n /\ reax.bonded[k]
  /\ reax' = [reax EXCEPT !.pc = IF many THEN "error" ELSE "idle",
                          !.err = IF many THEN "Increase MAXSPECBOND in fix_reaxc_species.h" ELSE @,
                          !.nmax = IF reax.N > @ THEN reax.N ELSE @,
                          !.rows = IF reax.N > reax.nmax THEN reax.N ELSE @]
  /\ UNCHANGED <<setupVars, computeVars, moreVars, rst, sten, nmaxatom, repl>>

ReaxPairNext ==
  \/ \E nl \in 0 .. MaxPairAtoms, ng \in 0 .. MaxPairAtoms, fs \in {0, 1} :
       nl + ng <= MaxPairAtoms /\ ReaxPairSetup(nl, ng, fs)
  \/ \E bonded \in [PairAtoms -> BOOLEAN] : ReaxPairForces(bonded)
  \/ \E many \in BOOLEAN : ReaxPairSpecies(many)

SpecReaxPair == ReaxPairInit /\ [][ReaxPairNext]_vars

\* FindBond() on its own: n local atoms, tmpid and tmpbo of rows x MAXSPECBOND
\* cleared entries, bond lists revealed as the loop reads them
ReaxFindBondInit ==
  /\ style = "reaxc"
  /\ fatal = NoError
  /\ smatb = SmatbNew
  /\ pod = PodNew
  /\ ret = Table(NoRet)
  /\ lastCall = NoCall
  /\ divZeroInit = FALSE
  /\ ncalls = 0
  /\ ComputeQuiet
  /\ rst = AuxIdle /\ sten = AuxIdle /\ nmaxatom = 0 /\ repl = AuxIdle
  /\ MoreQuiet
  /\ \E n \in 1 .. MaxPairAtoms, rows \in 1 .. MaxPairAtoms, nb \in [PairAtoms -> 0 .. MaxBonds] :
       /\ n <= rows
       /\ reax = [pc |-> "findbond", n |-> n, rows |-> rows, nb |-> nb,
                  i |-> 0, pj |-> 0, nj |-> 0, wr |-> {}, err |-> NoError]

\* one iteration of the loop over the bond list of atom i; the entry read is
\* a bond of order >= bo_cut to j >= i ("bond"), one of lower order ("weak")
\* or one to j < i ("lower")
ReaxFindBondStep(kind) ==
  /\ reax.pc = "findbond" /\ reax.i < reax.n /\ reax.pj < reax.nb[reax.i]
  /\ kind = "lower" => reax.i > 0
  /\ IF kind = "bond"
     THEN reax' = [reax EXCEPT !.wr = @ \cup {<<reax.i, reax.nj>>},
                               !.nj = @ + 1, !.pj = @ + 1,
                               !.pc = IF ReaxTooManyBonds(reax.nj + 1) THEN "error" ELSE @,
                               !.err = IF ReaxTooManyBonds(reax.nj + 1)
                                       THEN "Increase MAXSPECBOND in fix_reaxc_species.h" ELSE @]
     ELSE reax' = [reax EXCEPT !.pj = @ + 1]
  /\ UNCHANGED <<setupVars, computeVars, moreVars, rst, sten, nmaxatom, repl>>

\* the bond list of atom i is exhausted, or every atom is done
ReaxFindBondNext ==
  /\ reax.pc = "findbond"
  /\ \/ /\ reax.i < reax.n /\ reax.pj >= reax.nb[reax.i]
        /\ reax' = [reax EXCEPT !.i = @ + 1, !.pj = 0, !.nj = 0]
     \/ /\ reax.i >= reax.n
        /\ reax' = [reax EXCEPT !.pc = "done"]
  /\ UNCHANGED <<setupVars, computeVars, moreVars, rst, sten, nmaxatom, repl>>

FindBondNext ==
  \/ \E kind \in {"bond", "weak", "lower"} : ReaxFindBondStep(kind)
  \/ ReaxFindBondNext

SpecFindBond == ReaxFindBondInit /\ [][FindBondNext]_vars

FindBondOn == reax.pc \in {"findbond", "done", "error"}

ReaxPairOn == reax.pc \in {"idle", "lists", "species", "error"}

\* C25: over any sequence of compute() calls the one-time initialisation of
\* setup() runs exactly once, on the first call; setup_flag goes from 0 to 1
\* there and never returns to 0; every later call takes the ReAllocate
\* branch; and when write_reax_lists is about to index num_nbrs_offset the
\* array has at least N entries.
C25_SetupOnce ==
  /\ [](ReaxPairOn =>
          /\ reax.inits = (IF reax.calls >= 1 THEN 1 ELSE 0)
          /\ reax.setup_flag = reax.inits
          /\ reax.calls = 1 => reax.branch = "init"
          /\ reax.calls > 1 => reax.branch = "realloc"
          /\ reax.pc = "lists" => reax.offsets >= reax.N)
  /\ [][ReaxPairOn /\ reax.setup_flag = 1 => reax'.setup_flag = 1]_vars

C25_Witness ==
  /\ ReaxPairOn /\ reax.pc = "lists" /\ reax.calls = 3 /\ reax.branch = "realloc"
  /\ reax.nmax > 0 /\ reax.N > reax.nmax /\ reax.offsets = reax.N

\* C26: on every setup() call after the first, every atom index k from the
\* previous step's local+ghost count up to the current count N has its
\* bond-list end index equal to its start index when setup() returns.
C26_NewAtomsReset ==
  ReaxPairOn /\ reax.pc = "lists" /\ reax.branch = "realloc"
    => \A k \in PairAtoms : k >= reax.prevN /\ k < reax.N => ~reax.bonded[k]

\* C27: FindBond never writes column nj >= MAXSPECBOND of a row of tmpid or
\* tmpbo.
C27_NoWritePastRow ==
  FindBondOn => \A w \in reax.wr : w[2] < MAXSPECBOND

(***************************************************************************)
(* lj/coul/cut/soft on the GPU: one block of work-items runs                *)
(* k_lj_coul_soft or k_lj_coul_soft_fast for two atoms that are each        *)
(* other's only neighbor, one work-item per atom.                           *)
(***************************************************************************)

\* side of the shared coefficient tables of the fast kernel
MAX_SHARED_TYPES == 2
\* entries of sp_lj
SpLjSize == 8

GpuEntries == 0 .. MAX_SHARED_TYPES * MAX_SHARED_TYPES - 1
BlockSize == IF MAX_SHARED_TYPES * MAX_SHARED_TYPES > SpLjSize
             THEN MAX_SHARED_TYPES * MAX_SHARED_TYPES ELSE SpLjSize
GpuThreads == 0 .. BlockSize - 1

\* the coefficient tables in global memory: lj1 = (lambda-scaled epsilon,
\* sigma^6, cut_ljsq, cut_coulsq), lj3 = (LJ softening, Coulomb softening,
\* offset, lambda^n)
Lj1In(m) == [x |-> 1 + m, y |-> 1, z |-> IF m % 3 = 2 THEN 1 ELSE 4, w |-> 4]
Lj3In(m) == [x |-> m % 2, y |-> 3 * ((m \div 2) % 2), z |-> 0, w |-> 1 + (m % 2)]
CutsqIn(m) == 4
SpLjIn(k) == IF k % 4 = 0 THEN 1 ELSE 2
\* what an lj3 entry of shared memory that was never written may hold
Lj3Garbage == [x : {0, 1}, y : {0, 3}, z : {0}, w : {1, 2}]

SqrtExact(s) == CHOOSE r \in 0 .. s : r * r = s

\* the force expression both kernels share, for the coefficients they read
GpuPairForce(rsq, cut, l1, l3, factor_lj, factor_coul, qi, qj, qqrd2e) ==
  IF rsq < cut
  THEN LET r4sig6 == Q(rsq * rsq, l1.y)
           denlj == QAdd(QI(l3.x), QMul(QI(rsq), r4sig6))
           denlj2 == QMul(denlj, denlj)
           force_lj == IF rsq < l1.z
                       THEN QMul(QI(l1.x * l3.w * factor_lj),
                                 QSub(QDiv(QMul(QI(48), r4sig6), QMul(denlj2, denlj)),
                                      QDiv(QMul(QI(24), r4sig6), denlj2)))
                       ELSE QI(0)
           denc == SqrtExact(l3.y + rsq)
           forcecoul == IF rsq < l1.w
                        THEN Q(qj * qqrd2e * l1.x * qi * factor_coul, denc * denc * denc)
                        ELSE QI(0)
       IN QAdd(force_lj, forcecoul)
  ELSE QI(0)

\* k_lj_coul_soft_fast: lj3 goes to shared memory when energies are asked for
GpuLoadsLj3(evflag, ef) == evflag /\ ef

GpuInit ==
  /\ style = "lj/coul/cut/soft"
  /\ fatal = NoError
  /\ smatb = SmatbNew
  /\ pod = PodNew
  /\ ret = Table(NoRet)
  /\ lastCall = NoCall
  /\ divZeroInit = FALSE
  /\ ncalls = 0
  /\ ComputeQuiet
  /\ rst = AuxIdle /\ sten = AuxIdle /\ nmaxatom = 0 /\ reax = AuxIdle /\ repl = AuxIdle
  /\ switch = AuxIdle /\ roll = AuxIdle
  /\ \E kernel \in {"k_lj_coul_soft", "k_lj_coul_soft_fast"}, evflag \in BOOLEAN,
        ef \in BOOLEAN, vf \in BOOLEAN,
        type \in [0 .. 1 -> 0 .. MAX_SHARED_TYPES - 1] :
       gpu = [pc |-> "run", kernel |-> kernel, evflag |-> evflag, eflag |-> ef,
              vflag |-> vf, inum |-> 2, rsq |-> 1, type |-> type, q |-> [a \in 0 .. 1 |-> 1 + a],
              loaded |-> {}, sp_lj |-> {}, lj1 |-> {}, lj3 |-> {}, cutsq |-> {},
              done |-> {}, f |-> [t \in 0 .. 1 |-> QI(0)], unset |-> {}]

\* a work-item runs the statements ahead of the barrier
GpuLoad(t) ==
  /\ gpu.pc = "run" /\ t \notin gpu.loaded
  /\ IF gpu.kernel = "k_lj_coul_soft_fast"
     THEN gpu' = [gpu EXCEPT
                    !.loaded = @ \cup {t},
                    !.sp_lj = IF t < SpLjSize THEN @ \cup {t} ELSE @,
                    !.lj1 = IF t \in GpuEntries THEN @ \cup {t} ELSE @,
                    !.cutsq = IF t \in GpuEntries THEN @ \cup {t} ELSE @,
                    !.lj3 = IF t \in GpuEntries /\ GpuLoadsLj3(gpu.evflag, gpu.eflag)
                            THEN @ \cup {t} ELSE @]
     ELSE gpu' = [gpu EXCEPT !.loaded = @ \cup {t}, !.sp_lj = 0 .. SpLjSize - 1]
  /\ UNCHANGED <<setupVars, computeVars, rst, sten, nmaxatom, reax, repl, switch, roll>>

\* the work-item of atom t runs its neighbor loop and stores f; the fast
\* kernel reads its tables from shared memory after the barrier, the other
\* kernel from global memory; g is what an unwritten lj3 entry holds
GpuForce(t, g) ==
  /\ gpu.pc = "run" /\ t < gpu.inum /\ t \notin gpu.done
  /\ IF gpu.kernel = "k_lj_coul_soft_fast" THEN gpu.loaded = GpuThreads ELSE t \in gpu.loaded
  /\ LET j == 1 - t
         mtype == gpu.type[t] * MAX_SHARED_TYPES + gpu.type[j]
         fast == gpu.kernel = "k_lj_coul_soft_fast"
         garbage == fast /\ mtype \notin gpu.lj3
         l3 == IF garbage THEN g ELSE Lj3In(mtype)
         sb == j % 4
     IN /\ ~garbage => g = Lj3In(mtype)
        /\ gpu' = [gpu EXCEPT
                     !.done = @ \cup {t},
                     !.unset = IF garbage THEN @ \cup {t} ELSE @,
                     !.f[t] = GpuPairForce(gpu.rsq, CutsqIn(mtype), Lj1In(mtype), l3,
                                           SpLjIn(sb), SpLjIn(sb + 4),
                                           gpu.q[t], gpu.q[j], 1)]
  /\ UNCHANGED <<setupVars, computeVars, rst, sten, nmaxatom, reax, repl, switch, roll>>

GpuNext ==
  \/ \E t \in GpuThreads : GpuLoad(t)
  \/ \E t \in 0 .. 1, g \in Lj3Garbage \cup {Lj3In(m) : m \in GpuEntries} : GpuForce(t, g)

SpecGpu == GpuInit /\ [][GpuNext]_vars

GpuOn == gpu.pc = "run"

\* the force on atom t from the coefficient tables in global memory
GpuForceRef(t) ==
  LET j == 1 - t
      mtype == gpu.type[t] * MAX_SHARED_TYPES + gpu.type[j]
  IN GpuPairForce(gpu.rsq, CutsqIn(mtype), Lj1In(mtype), Lj3In(mtype),
                  SpLjIn(j % 4), SpLjIn((j % 4) + 4), gpu.q[t], gpu.q[j], 1)

\* C28: the force a kernel stores for an atom is the force of the pair
\* expression on the coefficients in global memory, whatever eflag and vflag
\* are and whichever of the two kernels ran; and every table entry the force
\* expression reads from shared memory was loaded before the barrier.
C28_ForceIgnoresFlags ==
  GpuOn => /\ \A t \in gpu.done : gpu.f[t] = GpuForceRef(t)
           /\ gpu.unset = {}

(***************************************************************************)
(* The SDS rolling-friction model: GSMRollingSDS and RollingSDS.  Doubles   *)
(* are exact rationals; the inputs explored are those for which every       *)
(* length the code takes is rational.                                       *)
(***************************************************************************)

\* calls of calculate_forces explored on one contact
MaxRollCalls == 1

QGt(a, b) == QFinite(a) /\ QFinite(b) /\ a.n * b.d > b.n * a.d
\* x != 0.0 is true of a NaN
QNonZero(a) == ~QFinite(a) \/ a.n # 0
QAbs(a) == IF QFinite(a) THEN Q(Abs(a.n), a.d) ELSE QNaN
QIsSquare(a) == ~QFinite(a) \/ (a.n >= 0 /\ ISqrt(a.n) * ISqrt(a.n) = a.n /\ ISqrt(a.d) * ISqrt(a.d) = a.d)
QSqrt(a) == IF QFinite(a) /\ a.n >= 0 THEN Q(ISqrt(a.n), ISqrt(a.d)) ELSE QNaN

V3(a, b, c) == <<QI(a), QI(b), QI(c)>>
dot3(u, v) == QAdd(QAdd(QMul(u[1], v[1]), QMul(u[2], v[2])), QMul(u[3], v[3]))
scale3(s, v) == <<QMul(s, v[1]), QMul(s, v[2]), QMul(s, v[3])>>
add3(u, v) == <<QAdd(u[1], v[1]), QAdd(u[2], v[2]), QAdd(u[3], v[3])>>
sub3(u, v) == <<QSub(u[1], v[1]), QSub(u[2], v[2]), QSub(u[3], v[3])>>
lensq3(v) == dot3(v, v)
len3(v) == QSqrt(lensq3(v))

\* the unit normal and the time step of the contact
RollNx == V3(0, 0, 1)
RollDt == QI(1)
\* the stored displacements, rolling velocities and normal forces explored,
\* and what an unassigned hist_temp may hold
RollHistories == {V3(0, 0, 0), V3(3, 4, 0), V3(0, 0, 2)}
RollVelocities == {V3(0, 0, 0), V3(3, 4, 0), V3(-3, -4, 0)}
RollFncrit == {0, 5}
RollGarbage == {V3(0, 0, 0), V3(6, 8, 0)}
RollStiffness == {0, 1}
RollCoeffValues == {-1, 0, 1}

\* the projection of the frame update: GSMRollingSDS subtracts rolldotn * nx,
\* RollingSDS subtracts (-rolldotn) * nx
RollProject(model, h, rolldotn) ==
  IF model = "GSMRollingSDS" THEN sub3(h, scale3(rolldotn, RollNx))
  ELSE sub3(h, scale3(QNeg(rolldotn), RollNx))

\* if (history_update): hist_temp read from history, rotated and advanced
RollAdvance(model, k, Frcrit, hist, vrl) ==
  LET rolldotn == dot3(hist, RollNx)
      frameupdate == QGt(QMul(QAbs(rolldotn), k), QMul(Q(1, 10 ^ 6), Frcrit))
      rollmag == len3(hist)
      proj == RollProject(model, hist, rolldotn)
      prjmag == len3(proj)
      scalefac == IF QGt(prjmag, QI(0)) THEN QDiv(rollmag, prjmag) ELSE QI(0)
      rotated == IF frameupdate THEN scale3(scalefac, proj) ELSE hist
  IN [h |-> add3(rotated, scale3(RollDt, vrl)),
      exact |-> frameupdate => QIsSquare(lensq3(hist)) /\ QIsSquare(lensq3(proj))]

\* the test that decides whether the force is rescaled
RollAbove(magfr, Frcrit) == QGt(magfr, Frcrit)

\* the trial force and the rescaling, from hist_temp = h
RollForce(model, k, gamma, Frcrit, h, vrl) ==
  LET trial == scale3(QI(-1), add3(scale3(k, h), scale3(gamma, vrl)))
      magfr == len3(trial)
      above == RollAbove(magfr, Frcrit)
      rollmag == len3(h)
      moving == QNonZero(rollmag)
      k_inv == QDiv(QI(1), k)
      magfr_inv == QDiv(QI(1), magfr)
      hnew == IF model = "GSMRollingSDS"
              THEN add3(scale3(QMul(QMul(QNeg(Frcrit), k_inv), magfr_inv), trial),
                        scale3(QMul(QNeg(gamma), k_inv), vrl))
              ELSE add3(add3(h, scale3(QDiv(QNeg(Frcrit), QMul(magfr, k)), trial)),
                        scale3(QDiv(QNeg(gamma), k), vrl))
  IN [trial |-> trial, above |-> above, moving |-> moving,
      fr |-> IF above THEN (IF moving THEN scale3(QMul(Frcrit, magfr_inv), trial) ELSE V3(0, 0, 0))
             ELSE trial,
      h |-> IF above /\ moving THEN hnew ELSE h,
      exact |-> QIsSquare(lensq3(trial)) /\ (above => QIsSquare(lensq3(h)))]

\* the final store into history: guarded in GSMRollingSDS, not in RollingSDS
RollStores(model, update) == model = "RollingSDS" \/ update

\* coeffs_to_local(): GSMRollingSDS reads k, gamma, mu and rejects negative
\* values; RollingSDS reads k, mu, gamma and checks nothing
RollIllegal(model, k, gamma, mu) == model = "GSMRollingSDS" /\ (k < 0 \/ mu < 0 \/ gamma < 0)

RollInit ==
  /\ style = "granular"
  /\ fatal = NoError
  /\ smatb = SmatbNew
  /\ pod = PodNew
  /\ ret = Table(NoRet)
  /\ lastCall = NoCall
  /\ divZeroInit = FALSE
  /\ ncalls = 0
  /\ ComputeQuiet
  /\ rst = AuxIdle /\ sten = AuxIdle /\ nmaxatom = 0 /\ reax = AuxIdle /\ repl = AuxIdle
  /\ switch = AuxIdle /\ gpu = AuxIdle
  /\ \E model \in {"GSMRollingSDS", "RollingSDS"}, h \in RollHistories :
       roll = [pc |-> "new", model |-> model, k |-> 0, gamma |-> 0, mu |-> 0,
               history |-> h, fr |-> V3(0, 0, 0), calls |-> 0, err |-> NoError,
               last |-> [update |-> TRUE, before |-> h, unset |-> FALSE, Frcrit |-> QI(0),
                         trial |-> V3(0, 0, 0), above |-> FALSE, moving |-> FALSE,
                         vrl |-> V3(0, 0, 0)]]

RollCoeffsToLocal(c0, c1, c2) ==
  /\ roll.pc = "new"
  /\ LET k == c0
         gamma == IF roll.model = "GSMRollingSDS" THEN c1 ELSE c2
         mu == IF roll.model = "GSMRollingSDS" THEN c2 ELSE c1
     IN roll' = [roll EXCEPT !.k = k, !.gamma = gamma, !.mu = mu,
                             !.pc = IF RollIllegal(roll.model, k, gamma, mu) THEN "error" ELSE "ready",
                             !.err = IF RollIllegal(roll.model, k, gamma, mu)
                                     THEN "Illegal SDS rolling model" ELSE @]
  /\ UNCHANGED <<setupVars, computeVars, rst, sten, nmaxatom, reax, repl, switch, gpu>>

\* calculate_forces() for one contact; g is what hist_temp holds when the
\* branch that assigns it is skipped
RollCalculateForces(update, vrl, Fncrit, g) ==
  /\ roll.pc = "ready" /\ roll.calls < MaxRollCalls
  /\ update => g = V3(0, 0, 0)
  /\ LET Frcrit == QI(roll.mu * Fncrit)
         adv == RollAdvance(roll.model, QI(roll.k), Frcrit, roll.history, vrl)
         hist_temp == IF update THEN adv.h ELSE g
         res == RollForce(roll.model, QI(roll.k), QI(roll.gamma), Frcrit, hist_temp, vrl)
     IN /\ (update => adv.exact) /\ res.exact
        /\ roll' = [roll EXCEPT
                      !.calls = @ + 1,
                      !.fr = res.fr,
                      !.history = IF RollStores(roll.model, update) THEN res.h ELSE @,
                      !.last = [update |-> update, before |-> roll.history, unset |-> ~update,
                                Frcrit |-> Frcrit, trial |-> res.trial, above |-> res.above,
                                moving |-> res.moving, vrl |-> vrl]]
  /\ UNCHANGED <<setupVars, computeVars, rst, sten, nmaxatom, reax, repl, switch, gpu>>

RollNext ==
  \/ \E c0 \in RollStiffness, c1 \in RollCoeffValues, c2 \in RollCoeffValues :
       RollCoeffsToLocal(c0, c1, c2)
  \/ \E update \in BOOLEAN, vrl \in RollVelocities, Fncrit \in RollFncrit, g \in RollGarbage :
       RollCalculateForces(update, vrl, Fncrit, g)

SpecRoll == RollInit /\ [][RollNext]_vars

RollDone == roll.pc = "ready" /\ roll.calls > 0

\* C29: after calculate_forces the magnitude of fr does not exceed
\* Frcrit = mu * Fncrit: a trial force above Frcrit has been rescaled to
\* magnitude exactly Frcrit, or set to zero when the rolling displacement has
\* zero length, and a trial force not above Frcrit is kept unchanged.
C29_ForceCapped ==
  RollDone =>
    /\ ~QGt(len3(roll.fr), roll.last.Frcrit)
    /\ roll.last.above /\ roll.last.moving => len3(roll.fr) = roll.last.Frcrit
    /\ roll.last.above /\ ~roll.last.moving => roll.fr = V3(0, 0, 0)
    /\ ~roll.last.above => roll.fr = roll.last.trial

\* C30: after calculate_forces with history_update false the three history
\* entries are what they were before the call, and fr is the force computed
\* from them: hist_temp was not read unassigned.
C30_NoUpdateKeepsHistory ==
  RollDone /\ ~roll.last.update =>
    /\ roll.history = roll.last.before
    /\ ~roll.last.unset
    /\ roll.fr = RollForce(roll.model, QI(roll.k), QI(roll.gamma), roll.last.Frcrit,
                           roll.last.before, roll.last.vrl).fr

====
